---- MODULE Spec2Model ----
(***************************************************************************)
(* Cache-aside resolution layer of timetable-sync-api:                     *)
(*   timetable/api.py    API._fetch_data, fetch_category, get_category,     *)
(*                       fetch_category_item, get_category_item,           *)
(*                       fetch_category_items_timetables,                  *)
(*                       get_category_item_timetable                       *)
(*   timetable/utils.py  default_year_start_end_dates, calc_start_end_range,*)
(*                       resolve_to_category_items, gather_events          *)
(*   timetable/cache.py  ValkeyCache                                       *)
(*                                                                         *)
(* An optional value (Python's `X | None`) is a sequence of length at most *)
(* one: <<>> is None and <<v>> is the value v.  A datetime is the number   *)
(* of months since year 0 (DateTime); the cache's expiry is kept in hours. *)
(***************************************************************************)
EXTENDS Integers, Sequences, FiniteSets, TLC

(***************************************************************************)
(* Bounds of the model.                                                    *)
(***************************************************************************)
\* The most identities one call of gather_events is given, over all its
\* category types.
MaxIdentities == 2

\* How often the upstream listings change during a behaviour.
MaxRevision == 1

\* The number of items upstream puts on one page of a listing (20 upstream).
PageSize == 1

\* The most codes one call of resolve_to_category_items is given.
MaxCodes == 2

\* Hours that pass in one step of the clock (Tick).
TickHours == 12

(***************************************************************************)
(* Program constants.                                                      *)
(***************************************************************************)
\* cache.py:51  expires_in = datetime.timedelta(days=1)
DefaultExpiryHours == 24

\* cache.py:114 expires_in=datetime.timedelta(hours=12)
TimetableExpiryHours == 12

\* api.py:80  if retries == 3
MaxRetries == 3

\* utils.py:58  now.month >= 8
AugustMonth == 8

\* utils.py:61  datetime.datetime(end_year, 5, 1, ...)
MayMonth == 5

None == <<>>
Some(v) == <<v>>

\* models.CategoryType: the closed enumeration of category types.
CategoryType == {"MODULES", "LOCATIONS", "PROGRAMMES_OF_STUDY"}

\* The item identities (UUIDs, in canonical string form) of the model.
Identities == {"u1", "u2"}

(***************************************************************************)
(* Dates.                                                                  *)
(***************************************************************************)
\* datetime.datetime(year, month, 1): months since year 0.
DateTime(year, month) == 12 * year + (month - 1)

\* datetime.datetime.now(): the model's current date, fixed during a behaviour.
Now == [year |-> 1, month |-> 9]

\* Mutant of default_year_start_end_dates: the month is not looked at.
DefaultDatesOfCalendarYear(now) ==
    <<DateTime(now.year, AugustMonth), DateTime(now.year + 1, MayMonth)>>

default_year_start_end_dates(now) ==
    LET start_year == IF now.month >= AugustMonth THEN now.year ELSE now.year - 1
        end_year   == IF now.month >= AugustMonth THEN now.year + 1 ELSE now.year
    IN  <<DateTime(start_year, AugustMonth), DateTime(end_year, MayMonth)>>

\* Mutant of StartAfterEnd: the order of the bounds is not looked at.
StartNeverAfterEnd(start, end) == FALSE

\* `if start > end:`
StartAfterEnd(start, end) == start > end

\* calc_start_end_range: the defaults fill an absent bound; start > end raises
\* ValueError.  (The out-of-window warning changes nothing.)
calc_start_end_range(start, end) ==
    LET d == default_year_start_end_dates(Now)
        s == IF start = None THEN d[1] ELSE start[1]
        e == IF end = None THEN d[2] ELSE end[1]
    IN  IF StartAfterEnd(s, e) THEN [raised |-> TRUE, start |-> s, end |-> e]
        ELSE [raised |-> FALSE, start |-> s, end |-> e]

\* The years of the current dates default_year_start_end_dates is tried on.
MaxYear == 5

\* The current dates: every month of the years 1..MaxYear.
Dates == [year : 1..MaxYear, month : 1..12]

ClockIdle(now) == [pc |-> "idle", now |-> now, result |-> None]

StartDefault == default_year_start_end_dates(Now)[1]
EndDefault == default_year_start_end_dates(Now)[2]

\* The instants a caller supplies as range bounds: before the default window,
\* inside it, and after it.
Instants == {StartDefault - 1, StartDefault + 1, EndDefault + 1}
RangeBounds == {None} \cup {Some(t) : t \in Instants}

(***************************************************************************)
(* Upstream timetables.                                                    *)
(***************************************************************************)
Event(identity, n, start) ==
    [identity |-> identity, n |-> n, start |-> start, end |-> start + 1]

\* The start times of the events upstream holds for an item, in upstream's
\* order: not sorted, with a repeated start, on and beyond both ends of the
\* default window.
UpstreamStarts(identity) ==
    IF identity = "u1"
    THEN <<EndDefault, StartDefault - 1, StartDefault + 1, EndDefault + 1,
           StartDefault, StartDefault + 1>>
    ELSE <<StartDefault + 1, EndDefault + 1, StartDefault, EndDefault>>

\* The "Results" of the CategoryEvents payload upstream returns for an item.
UpstreamEvents(identity) ==
    [n \in 1..Len(UpstreamStarts(identity)) |->
        Event(identity, n, UpstreamStarts(identity)[n])]

(***************************************************************************)
(* State.                                                                  *)
(***************************************************************************)
VARIABLES
    cache,      \* the Valkey store: key -> [value, expires (hours left)]
    requests,   \* the upstream requests the running operation has issued
    writes,     \* the cache keys the running operation has set, in order;
                \* with concurrent tasks, [task, key] records in order
    ge,         \* the frame of gather_events
    narrow,     \* the identities whose cached timetable was fetched by a call
                \* whose range left out some of upstream's events (history)
    fc,         \* the frame of API.fetch_category
    revision,   \* the revision of the listings upstream holds
    canonical,  \* per category type, the Category the last successful fetch
                \* of the whole listing with caching on produced (history)
    rs,         \* the frame of utils.resolve_to_category_items
    fd,         \* the frame of API._fetch_data, followed request by request
    exhausted,  \* whether a request of the running operation has ended
                \* with its retries exhausted (history)
    clock,       \* the current date and the frame of
                \* utils.default_year_start_end_dates
    gc,          \* the frame of API.get_category
    co          \* per concurrent task, the frame of the fetch operation it runs

vars ==
    <<cache, requests, writes, ge, narrow, fc, revision, canonical, rs, fd,
      exhausted, clock, gc, co>>

(***************************************************************************)
(* ValkeyCache.                                                            *)
(***************************************************************************)
\* CategoryType.value: the identity upstream knows the category type by.
CategoryTypeValue(category_type) ==
    CASE category_type = "MODULES" -> "525fe79b-73c3-4b5c-8186-83c652b3adcc"
      [] category_type = "LOCATIONS" -> "1e042cb1-547d-41d4-ae93-a1f2c3d34538"
      [] category_type = "PROGRAMMES_OF_STUDY"
             -> "241e4d36-60e0-49f8-b27e-99416745d98d"

\* The keys, as the f-strings spell them: f"category:{category_type.value}",
\* f"item:{item.identity}" and f"item:{item_id}", f"timetable:{...identity}"
\* and f"timetable:{item_id}".
CategoryKey(category_type) ==
    <<"category", ":", CategoryTypeValue(category_type)>>

ItemKey(identity) == <<"item", ":", identity>>

\* Mutant of TimetableKey: the identity is left out of the key.
TimetableKeyOfAll(identity) == <<"timetable", ":">>

TimetableKey(identity) == <<"timetable", ":", identity>>

EmptyCache == [k \in {} |-> None]

\* Mutant of CacheSet: an entry that is present is left as it is.
CacheSetIfAbsent(c, key, model, expires_in) ==
    [k \in DOMAIN c \cup {key} |->
        IF k \in DOMAIN c THEN c[k]
        ELSE [value |-> model,
              expires |-> IF expires_in = None THEN DefaultExpiryHours
                          ELSE expires_in[1]]]

\* ValkeyCache._set: a full replacement of the entry, with a fresh expiry.
CacheSet(c, key, model, expires_in) ==
    [k \in DOMAIN c \cup {key} |->
        IF k = key
        THEN [value |-> model,
              expires |-> IF expires_in = None THEN DefaultExpiryHours
                          ELSE expires_in[1]]
        ELSE c[k]]

\* ValkeyCache._get: the stored value, or None.
CacheGet(c, key) == IF key \in DOMAIN c THEN Some(c[key].value) ELSE None

\* Mutant of CacheAfterGet: the read renews the expiry of the entry (GETEX).
CacheAfterGetTouch(c, key) ==
    [k \in DOMAIN c |->
        IF k = key THEN [c[k] EXCEPT !.expires = DefaultExpiryHours] ELSE c[k]]

\* The store after ValkeyCache._get: `await self.client.get(key)` is a plain
\* GET, which leaves the entry and its expiry as they are.
CacheAfterGet(c, key) == c

set_category_item_timetable(c, timetable) ==
    CacheSet(c, TimetableKey(timetable.identity), timetable,
             Some(TimetableExpiryHours))

cache_get_category_item_timetable(c, item_id) == CacheGet(c, TimetableKey(item_id))

\* Mutant of Aged: an entry whose expiry has elapsed stays in the store.
AgedKeepsElapsed(c, hours) ==
    [k \in DOMAIN c |-> [c[k] EXCEPT !.expires = c[k].expires - hours]]

\* The store after `hours` hours: an entry whose expiry has elapsed is gone.
Aged(c, hours) ==
    [k \in {x \in DOMAIN c : c[x].expires > hours} |->
        [c[k] EXCEPT !.expires = c[k].expires - hours]]

(***************************************************************************)
(* API._fetch_data.                                                        *)
(***************************************************************************)
\* res.ok of the successive responses the transport gives to one request:
\* one more than _fetch_data asks for.
ResponseSeqs == [1..(MaxRetries + 2) -> BOOLEAN]

\* Mutant of RetriesExhausted: one more retry is allowed.
RetriesExhaustedLate(retries) == retries = MaxRetries + 1

\* `if retries == 3:`
RetriesExhausted(retries) == retries = MaxRetries

RECURSIVE FetchLoop(_, _, _)
FetchLoop(responses, retries, sent) ==
    IF ~responses[sent + 1]
    THEN IF RetriesExhausted(retries)
         THEN [ok |-> FALSE, sent |-> sent + 1, sleeps |-> retries]
         ELSE FetchLoop(responses, retries + 1, sent + 1)
    ELSE [ok |-> TRUE, sent |-> sent + 1, sleeps |-> retries]

fetch_data(responses) == FetchLoop(responses, 0, 0)

\* await asyncio.sleep(5)
SleepSeconds == 5

\* The paths _fetch_data is called with.
Paths == {"Categories", "Item", "Events"}

FdIdle ==
    [pc |-> "idle", path |-> "none", responses |-> <<>>, retries |-> 0,
     trace |-> <<>>, result |-> "none"]

\* The requests sent so far by the running _fetch_data.
Sent(trace) == SelectSeq(trace, LAMBDA x : x.kind = "request")

(***************************************************************************)
(* Timetables: API.fetch_category_items_timetables and                     *)
(* API.get_category_item_timetable.                                        *)
(***************************************************************************)
\* Mutant of InRange: the end of the range is left out.
InRangeEndExcluded(e, start, end) == start <= e.start /\ e.start < end

\* lambda e: start <= e.start <= end
InRange(e, start, end) == start <= e.start /\ e.start <= end

\* Mutant of FilterEvents: the first event in the range is dropped as well.
FilterEventsButFirst(events, start, end) ==
    LET kept == SelectSeq(events, LAMBDA e : InRange(e, start, end))
    IN  IF kept = <<>> THEN kept ELSE Tail(kept)

\* list(filter(lambda e: start <= e.start <= end, timetable.events))
FilterEvents(events, start, end) ==
    SelectSeq(events, LAMBDA e : InRange(e, start, end))

\* models.CategoryItemTimetable.from_payload
TimetableFromPayload(payload) ==
    [category_type |-> payload.CategoryTypeIdentity,
     identity |-> payload.Identity,
     events |-> payload.Results]

\* Mutant of CategoryEvents: upstream is taken to send a timetable, without
\* events, for an identity it does not know.
CategoryEventsOfAll(category_type, item_identities, known) ==
    [n \in 1..Len(item_identities) |->
        [CategoryTypeIdentity |-> category_type,
         Identity |-> item_identities[n],
         Results |-> IF item_identities[n] \in known
                     THEN UpstreamEvents(item_identities[n]) ELSE <<>>]]

\* data["CategoryEvents"]: one timetable per requested identity upstream
\* knows, in the order of the request.
CategoryEvents(category_type, item_identities, known) ==
    LET asked == SelectSeq(item_identities, LAMBDA i : i \in known)
    IN  [n \in 1..Len(asked) |->
            [CategoryTypeIdentity |-> category_type,
             Identity |-> asked[n],
             Results |-> UpstreamEvents(asked[n])]]

\* Mutant of StoredTimetable: the timetable is stored after the filter.
StoredTimetableFiltered(timetable, start, end) ==
    [timetable EXCEPT !.events =
        SelectSeq(timetable.events,
                  LAMBDA e : start <= e.start /\ e.start <= end)]

\* What the loop over data["CategoryEvents"] stores under a timetable's key:
\* set_category_item_timetable runs before the filter, on all the events.
StoredTimetable(timetable, start, end) == timetable

\* What the loop over data["CategoryEvents"] appends to `timetables`.
ReturnedTimetable(timetable, start, end) ==
    [timetable EXCEPT !.events = FilterEvents(timetable.events, start, end)]

\* The cache after the loop over data["CategoryEvents"] has stored each
\* timetable in turn.
RECURSIVE StoreTimetables(_, _, _, _)
StoreTimetables(c, timetables, start, end) ==
    IF timetables = <<>> THEN c
    ELSE StoreTimetables(
             set_category_item_timetable(
                 c, StoredTimetable(Head(timetables), start, end)),
             Tail(timetables), start, end)

TimetablesRequest(category_type, item_identities) ==
    [path |-> "Events", category_type |-> category_type,
     identities |-> item_identities]

\* The transport's answers to one request, as _fetch_data ends on them.
FetchOutcomes == {fetch_data(responses) : responses \in ResponseSeqs}

\* API.fetch_category_items_timetables.  `res` is how _fetch_data ended and
\* `known` the identities upstream answers for.
fetch_category_items_timetables(c, category_type, item_identities, start, end, cacheFlag, res, known) ==
    LET cacheOn == IF cacheFlag = None THEN TRUE ELSE cacheFlag[1]
        range == calc_start_end_range(start, end)
        request == TimetablesRequest(category_type, item_identities)
        data == CategoryEvents(category_type, item_identities, known)
        parsed == [n \in 1..Len(data) |-> TimetableFromPayload(data[n])]
        none == [error |-> "none", cache |-> c, timetables |-> <<>>,
                 requests |-> <<>>, writes |-> <<>>]
    IN  IF range.raised THEN [none EXCEPT !.error = "ValueError"]
        ELSE IF ~res.ok
        THEN [none EXCEPT !.error = "ClientResponseError",
                          !.requests = <<request>>]
        ELSE [error |-> "none",
              cache |-> IF cacheOn
                        THEN StoreTimetables(c, parsed, range.start, range.end)
                        ELSE c,
              timetables |-> [n \in 1..Len(parsed) |->
                  ReturnedTimetable(parsed[n], range.start, range.end)],
              requests |-> <<request>>,
              writes |-> IF cacheOn
                         THEN [n \in 1..Len(parsed) |->
                                  TimetableKey(parsed[n].identity)]
                         ELSE <<>>]

\* Mutant of RangeGiven: `if start and end:`.
RangeGivenBoth(start, end) == start # None /\ end # None

\* `if start or end:` of API.get_category_item_timetable.
RangeGiven(start, end) == start # None \/ end # None

\* API.get_category_item_timetable.
get_category_item_timetable(c, item_identity, start, end) ==
    LET timetable == cache_get_category_item_timetable(c, item_identity)
        range == calc_start_end_range(start, end)
    IN  IF timetable = None THEN [error |-> "none", timetable |-> None]
        ELSE IF RangeGiven(start, end)
        THEN IF range.raised THEN [error |-> "ValueError", timetable |-> None]
             ELSE [error |-> "none",
                   timetable |-> Some([timetable[1] EXCEPT !.events =
                       FilterEvents(timetable[1].events, range.start, range.end)])]
        ELSE [error |-> "none", timetable |-> timetable]

(***************************************************************************)
(* Text.  A string is a sequence of tokens; the token " " is whitespace.   *)
(***************************************************************************)
RECURSIVE LStrip(_)
LStrip(text) ==
    IF text # <<>> /\ Head(text) = " " THEN LStrip(Tail(text)) ELSE text

RECURSIVE RStrip(_)
RStrip(text) ==
    IF text # <<>> /\ text[Len(text)] = " "
    THEN RStrip(SubSeq(text, 1, Len(text) - 1))
    ELSE text

\* str.strip()
Strip(text) == RStrip(LStrip(text))

\* str.split(sep)
RECURSIVE SplitOn(_, _)
SplitOn(text, sep) ==
    IF \A n \in 1..Len(text) : text[n] # sep THEN <<text>>
    ELSE LET k == CHOOSE n \in 1..Len(text) :
                      text[n] = sep /\ \A m \in 1..(n - 1) : text[m] # sep
         IN  <<SubSeq(text, 1, k - 1)>>
                 \o SplitOn(SubSeq(text, k + 1, Len(text)), sep)

\* `needle in text`, for strings
Contains(text, needle) ==
    \E n \in 0..(Len(text) - Len(needle)) :
        SubSeq(text, n + 1, n + Len(needle)) = needle

(***************************************************************************)
(* Category items: models.CategoryItem, models.Category, models.Location.  *)
(***************************************************************************)
\* Location.from_str raises ValueError at `campus, rooms = loc.split(".")`
\* when a comma-separated part holds "&" and not exactly one ".".
LocationFromStrRaises(location) ==
    LET parts == SplitOn(location, ",")
    IN  \E n \in 1..Len(parts) :
            /\ Contains(Strip(parts[n]), <<"&">>)
            /\ Len(SplitOn(Strip(parts[n]), ".")) # 2

\* CategoryItem.from_payload raises ValueError for a category type identity
\* outside the enumeration and for a location name from_str cannot unpack.
ItemFromPayloadRaises(payload) ==
    \/ payload.CategoryTypeIdentity \notin CategoryType
    \/ /\ payload.CategoryTypeIdentity = "LOCATIONS"
       /\ LocationFromStrRaises(payload.Name)

\* CategoryItem.from_payload, when it does not raise.  The code of a
\* location is its rooms joined by spaces: for a name of one room, as every
\* location name here that parses, that is the stripped name.
ItemFromPayload(payload) ==
    [category_type |-> payload.CategoryTypeIdentity,
     identity |-> payload.Identity,
     name |-> payload.Name,
     code |-> IF payload.CategoryTypeIdentity = "LOCATIONS"
              THEN Strip(payload.Name)
              ELSE Strip(SplitOn(payload.Name, " ")[1])]

\* models.BasicCategoryItem(name=item.name, identity=item.identity)
BasicItem(item) == [name |-> item.name, identity |-> item.identity]

\* Category.from_payload
CategoryFromPayloadRaises(payload) ==
    \E n \in 1..Len(payload.Results) : ItemFromPayloadRaises(payload.Results[n])

CategoryFromPayload(payload) ==
    [items |-> [n \in 1..Len(payload.Results) |->
                   ItemFromPayload(payload.Results[n])],
     count |-> payload.Count]

(***************************************************************************)
(* The upstream listings.                                                  *)
(***************************************************************************)
ItemPayload(identity, category_type, name) ==
    [Identity |-> identity, CategoryTypeIdentity |-> category_type, Name |-> name]

\* The listing upstream holds for a category type at a revision.  The second
\* location's name is one Location.from_str cannot unpack.
UpstreamItems(category_type, rev) ==
    IF category_type = "MODULES"
    THEN <<ItemPayload("u1", "MODULES", <<"CSC", "1003", " ", "Programming">>)>>
         \o (IF rev < 2
             THEN <<ItemPayload("u3", "MODULES", <<"MAT", "1001">>)>>
             ELSE <<>>)
         \o (IF rev >= 1
             THEN <<ItemPayload("u5", "MODULES", <<"CSC", "1004">>)>>
             ELSE <<>>)
    ELSE IF category_type = "LOCATIONS"
    THEN <<ItemPayload("u2", "LOCATIONS", <<"GLA", ".", "C117">>)>>
         \o (IF rev >= 1
             THEN <<ItemPayload("u4", "LOCATIONS",
                        <<"GLA", ".", "C117", " ", "&", " ", "GLA", ".", "C122">>)>>
             ELSE <<>>)
    ELSE <<>>

\* Upstream's search: the items whose name holds the query; all of them for
\* the empty query.
UpstreamSearch(category_type, query, rev) ==
    SelectSeq(UpstreamItems(category_type, rev),
              LAMBDA p : Contains(p.Name, query))

\* The response to pageNumber = page: TotalPages, Count and that page's Results.
UpstreamPage(category_type, query, rev, page) ==
    LET found == UpstreamSearch(category_type, query, rev)
        last == IF page * PageSize < Len(found) THEN page * PageSize
                ELSE Len(found)
    IN  [TotalPages |-> (Len(found) + PageSize - 1) \div PageSize,
         Count |-> Len(found),
         Results |-> SubSeq(found, (page - 1) * PageSize + 1, last)]

(***************************************************************************)
(* ValkeyCache.set_category / get_category.                                *)
(***************************************************************************)
set_category(c, category_type, category) ==
    CacheSet(c, CategoryKey(category_type), category, None)

cache_get_category(c, category_type) == CacheGet(c, CategoryKey(category_type))

(***************************************************************************)
(* API.fetch_category.                                                     *)
(***************************************************************************)
\* The category types fetch_category is called with.
ListingTypes == {"MODULES", "LOCATIONS"}

\* The queries it is called with: none, the empty one, a blank one, a code.
Queries == {None, Some(<<>>), Some(<<" ">>), Some(<<"CSC">>)}

\* The cache argument: None (the default) or a flag.
CacheFlags == {None, Some(TRUE), Some(FALSE)}

FcIdle ==
    [pc |-> "idle", caller |-> "none", category_type |-> "none",
     query |-> None, cacheFlag |-> None, basic |-> FALSE,
     total_pages |-> 0, count |-> 0, results |-> <<>>, data |-> <<>>,
     error |-> "none", result |-> None, before |-> None]

\* "query": query.strip() if query else ""
QueryParam(query) ==
    IF query = None \/ query = Some(<<>>) THEN <<>> ELSE Strip(query[1])

\* Mutant of QueryIsBlank: every query counts as blank.
QueryIsBlankAlways(query) == TRUE

\* `query is None or not query.strip()`
QueryIsBlank(query) == query = None \/ Strip(query[1]) = <<>>

\* Mutant of ShouldCache: the fetched category is always cached when caching
\* is on.
ShouldCacheAlways(query, cacheFlag) ==
    IF cacheFlag = None THEN TRUE ELSE cacheFlag[1]

\* `if (query is None or not query.strip()) and cache:`, cache defaulting to True
ShouldCache(query, cacheFlag) ==
    QueryIsBlank(query) /\ (IF cacheFlag = None THEN TRUE ELSE cacheFlag[1])

CategoryRequest(category_type, page, query) ==
    [path |-> "Categories", category_type |-> category_type,
     page |-> page, query |-> query]

\* A call of api.fetch_category(category_type, query=, cache=, items_type=).
FetchCategoryStart(caller, category_type, query, cacheFlag, basic) ==
    fc' = [FcIdle EXCEPT !.pc = "page1", !.caller = caller,
                         !.category_type = category_type,
                         !.query = query, !.cacheFlag = cacheFlag,
                         !.basic = basic,
                         !.before = IF CategoryKey(category_type) \in DOMAIN cache
                                    THEN Some(cache[CategoryKey(category_type)])
                                    ELSE None]

FcRaised(frame, error) ==
    [frame EXCEPT !.pc = "raised", !.error = error, !.result = None]

\* data = await self._fetch_data(..., pageNumber 1)
FetchCategoryFirstPage ==
    /\ fc.pc = "page1"
    /\ requests' = Append(requests,
                          CategoryRequest(fc.category_type, 1, QueryParam(fc.query)))
    /\ \E res \in FetchOutcomes :
        \E page \in {UpstreamPage(fc.category_type, QueryParam(fc.query),
                                  revision, 1)} :
          /\ exhausted' = (exhausted \/ ~res.ok)
          /\ IF ~res.ok
            THEN fc' = FcRaised(fc, "ClientResponseError")
            ELSE fc' = [fc EXCEPT
                    !.pc = IF page.TotalPages > 1 THEN "pages" ELSE "aggregate",
                    !.total_pages = page.TotalPages,
                    !.count = page.Count,
                    !.results = page.Results,
                    !.data = [k \in 1..(IF page.TotalPages > 1
                                        THEN page.TotalPages - 1 ELSE 0) |->
                                 [state |-> "pending", results |-> <<>>]]]
    /\ UNCHANGED <<cache, writes, ge, narrow, revision, canonical, rs, fd, clock, gc, co>>

\* One of the requests of asyncio.gather(..., return_exceptions=True) ends:
\* the pages 2..total_pages are in flight together and end in any order.
FetchCategoryPage ==
    /\ fc.pc = "pages"
    /\ \E k \in {n \in 1..Len(fc.data) : fc.data[n].state = "pending"},
          res \in FetchOutcomes :
        LET page == UpstreamPage(fc.category_type, QueryParam(fc.query),
                                 revision, k + 1)
            data == [fc.data EXCEPT ![k] =
                        IF res.ok THEN [state |-> "ok", results |-> page.Results]
                        ELSE [state |-> "error", results |-> <<>>]]
        IN  /\ fc' = [fc EXCEPT
                    !.data = data,
                    !.pc = IF \A n \in 1..Len(data) : data[n].state # "pending"
                           THEN "aggregate" ELSE "pages"]
            /\ requests' = Append(requests,
                   CategoryRequest(fc.category_type, k + 1, QueryParam(fc.query)))
            /\ exhausted' = (exhausted \/ ~res.ok)
    /\ UNCHANGED <<cache, writes, ge, narrow, revision, canonical, rs, fd, clock, gc, co>>

\* Mutant of PagesRaise: a failed page is skipped.
PagesNeverRaise(data) == FALSE

\* `for d in data: if isinstance(d, BaseException): raise d`
PagesRaise(data) == \E n \in 1..Len(data) : data[n].state = "error"

\* Mutant of ExtendResults: the results of a page are added twice.
RECURSIVE ExtendResultsTwice(_, _)
ExtendResultsTwice(results, data) ==
    IF data = <<>> THEN results
    ELSE ExtendResultsTwice(
             IF Head(data).state = "ok"
             THEN results \o Head(data).results \o Head(data).results
             ELSE results,
             Tail(data))

\* results.extend(d["Results"]) for every d that is not an exception
RECURSIVE ExtendResults(_, _)
ExtendResults(results, data) ==
    IF data = <<>> THEN results
    ELSE ExtendResults(
             IF Head(data).state = "ok" THEN results \o Head(data).results
             ELSE results,
             Tail(data))

\* The query asks for the whole listing: it is absent or all whitespace.
WholeListingAsked(query) ==
    query = None \/ \A n \in 1..Len(query[1]) : query[1][n] = " "

\* The rest of fetch_category once every page has ended: raise the first
\* exception, or build the Category, cache it when the query is blank, and
\* return it.
FetchCategoryAggregate ==
    /\ fc.pc = "aggregate"
    /\ LET final_data == [Results |-> ExtendResults(fc.results, fc.data),
                          Count |-> fc.count]
           category == CategoryFromPayload(final_data)
           key == CategoryKey(fc.category_type)
       IN  IF PagesRaise(fc.data)
           THEN /\ fc' = FcRaised(fc, "ClientResponseError")
                /\ UNCHANGED <<cache, writes, canonical>>
           ELSE IF CategoryFromPayloadRaises(final_data)
           THEN /\ fc' = FcRaised(fc, "ValueError")
                /\ UNCHANGED <<cache, writes, canonical>>
           ELSE /\ IF ShouldCache(fc.query, fc.cacheFlag)
                   THEN /\ cache' = set_category(cache, fc.category_type, category)
                        /\ writes' = Append(writes, key)
                   ELSE UNCHANGED <<cache, writes>>
                /\ canonical' =
                       IF WholeListingAsked(fc.query) /\ fc.cacheFlag # Some(FALSE)
                       THEN [canonical EXCEPT ![fc.category_type] = Some(category)]
                       ELSE canonical
                /\ fc' = [fc EXCEPT
                       !.pc = "returned",
                       !.result = Some(
                           IF fc.basic
                           THEN [items |-> [n \in 1..Len(category.items) |->
                                               BasicItem(category.items[n])],
                                 count |-> category.count]
                           ELSE category)]
    /\ UNCHANGED <<requests, ge, narrow, revision, rs, fd, exhausted, clock, gc, co>>

\* Upstream changes its listings.
UpstreamUpdate ==
    /\ revision < MaxRevision
    /\ revision' = revision + 1
    /\ UNCHANGED <<cache, requests, writes, ge, narrow, fc, canonical, rs, fd, exhausted, clock, gc, co>>

(***************************************************************************)
(* utils.gather_events.                                                    *)
(***************************************************************************)
\* The category types gather_events is called with.
GatherTypes == {"MODULES", "LOCATIONS"}

IdentityLists == UNION {[1..n -> Identities] : n \in 0..MaxIdentities}

\* group_identities: a dict, so an ordered list of distinct category types,
\* each with its list of identities.
GroupOrders ==
    {<<>>} \cup {<<g>> : g \in GatherTypes}
           \cup {<<g, h>> : <<g, h>> \in {p \in GatherTypes \X GatherTypes : p[1] # p[2]}}

RECURSIVE CountIdentities(_)
CountIdentities(group_identities) ==
    IF group_identities = <<>> THEN 0
    ELSE Len(Head(group_identities).identities)
             + CountIdentities(Tail(group_identities))

GroupIdentities ==
    {gi \in UNION {{[n \in 1..Len(o) |-> [group |-> o[n], identities |-> ids[n]]] :
                       ids \in [1..Len(o) -> IdentityLists]} : o \in GroupOrders} :
        CountIdentities(gi) <= MaxIdentities}

GeIdle ==
    [pc |-> "idle", todo |-> <<>>, start_date |-> None, end_date |-> None,
     timetables_to_fetch |-> <<>>, fetched |-> 0, events |-> <<>>,
     probes |-> <<>>, contributions |-> <<>>, error |-> "none",
     unknown |-> {}, after |-> None]

\* The frame of a read operation of the API (get_category, and also
\* get_category_item and get_category_item_timetable): its arguments, what
\* it returned or raised and the store as it was when it was called.
GcIdle ==
    [pc |-> "idle", op |-> "get_category", category_type |-> "MODULES",
     query |-> None, limit |-> None, item_identity |-> "none",
     start |-> None, end |-> None, error |-> "none",
     result |-> None, before |-> EmptyCache]

\* No operation is running, and the last one's outcome has been taken.
Idle ==
    /\ ge.pc = "idle" /\ fc.pc = "idle" /\ rs.pc = "idle" /\ fd.pc = "idle"
    /\ gc.pc = "idle"
    /\ \A t \in DOMAIN co : co[t].pc = "idle"

\* The running operation has returned or raised.
Finished ==
    \/ ge.pc \in {"returned", "raised"}
    \/ fc.pc \in {"returned", "raised"} /\ fc.caller = "top"
    \/ rs.pc \in {"returned", "raised"}
    \/ fd.pc \in {"returned", "raised"}
    \/ gc.pc \in {"returned", "raised"}
    \/ \E t \in DOMAIN co : co[t].pc \in {"returned", "raised"}

\* The groups still to probe: the outer loop skips a group with no identity left.
RECURSIVE TrimGroups(_)
TrimGroups(todo) ==
    IF todo = <<>> THEN <<>>
    ELSE IF Head(todo).identities = <<>> THEN TrimGroups(Tail(todo))
    ELSE todo

\* Mutant of AppendToFetch: every identity gets an entry, so a request, of its
\* own.
AppendToFetchApart(ttf, group, identity) ==
    Append(ttf, [group |-> group, identities |-> <<identity>>])

\* timetables_to_fetch[group].append(identity) on a defaultdict(list).
AppendToFetch(ttf, group, identity) ==
    IF \E k \in 1..Len(ttf) : ttf[k].group = group
    THEN [k \in 1..Len(ttf) |->
            IF ttf[k].group = group
            THEN [ttf[k] EXCEPT !.identities = Append(@, identity)]
            ELSE ttf[k]]
    ELSE Append(ttf, [group |-> group, identities |-> <<identity>>])

\* Where gather_events stands once the probe loop is at `todo`.
PcAfterProbe(todo, ttf) ==
    IF todo # <<>> THEN "probe"
    ELSE IF ttf # <<>> THEN "fetch"
    ELSE "returned"

\* Mutant of ConcatEvents: the events of a later timetable are put in front.
RECURSIVE ConcatEventsBackwards(_)
ConcatEventsBackwards(timetables) ==
    IF timetables = <<>> THEN <<>>
    ELSE ConcatEventsBackwards(Tail(timetables)) \o Head(timetables).events

\* `for timetable in timetables: events.extend(timetable.events)`
RECURSIVE ConcatEvents(_)
ConcatEvents(timetables) ==
    IF timetables = <<>> THEN <<>>
    ELSE Head(timetables).events \o ConcatEvents(Tail(timetables))

\* Mutant of Raised: the error is swallowed and what was gathered so far is
\* returned.
RaisedReturnsGathered(frame, error) == [frame EXCEPT !.pc = "returned"]

\* An exception leaves gather_events: nothing is returned.
Raised(frame, error) ==
    [frame EXCEPT !.pc = "raised", !.error = error, !.events = <<>>]

\* A call of gather_events(group_identities, start_date, end_date, api).
GatherCall(group_identities, start_date, end_date) ==
    /\ Idle
    /\ LET todo == TrimGroups(group_identities)
       IN  ge' = [GeIdle EXCEPT !.pc = PcAfterProbe(todo, <<>>),
                                !.todo = todo,
                                !.start_date = start_date,
                                !.end_date = end_date]
    /\ requests' = <<>>
    /\ writes' = <<>>
    /\ exhausted' = FALSE
    /\ UNCHANGED <<cache, narrow, fc, revision, canonical, rs, fd, clock, gc, co>>

\* Mutant of TimetableFound: `if timetable and timetable.events:`.
TimetableFoundWithEvents(timetable) ==
    timetable # None /\ timetable[1].events # <<>>

\* `if timetable:` of gather_events: a CategoryItemTimetable is always true.
TimetableFound(timetable) == timetable # None

\* One turn of the probe loop: api.get_category_item_timetable(identity, ...).
GatherProbe ==
    /\ ge.pc = "probe"
    /\ \E r \in {get_category_item_timetable(cache,
                     Head(Head(ge.todo).identities), ge.start_date, ge.end_date)} :
        LET group == Head(ge.todo).group
            identity == Head(Head(ge.todo).identities)
            rest == TrimGroups(<<[Head(ge.todo) EXCEPT !.identities = Tail(@)]>>
                               \o Tail(ge.todo))
            ttf == AppendToFetch(ge.timetables_to_fetch, group, identity)
        IN  IF r.error # "none"
            THEN ge' = Raised(ge, r.error)
            ELSE IF TimetableFound(r.timetable)
            THEN ge' = [ge EXCEPT
                     !.todo = rest,
                     !.pc = PcAfterProbe(rest, ge.timetables_to_fetch),
                     !.events = @ \o r.timetable[1].events,
                     !.probes = Append(@, [group |-> group, identity |-> identity,
                                           cached |-> TimetableKey(identity)
                                                          \in DOMAIN cache]),
                     !.contributions = Append(@, [identity |-> identity,
                                                  hit |-> TRUE,
                                                  events |-> r.timetable[1].events])]
            ELSE ge' = [ge EXCEPT
                     !.todo = rest,
                     !.pc = PcAfterProbe(rest, ttf),
                     !.timetables_to_fetch = ttf,
                     !.probes = Append(@, [group |-> group, identity |-> identity,
                                           cached |-> TimetableKey(identity)
                                                          \in DOMAIN cache])]
    /\ UNCHANGED <<cache, requests, writes, narrow, fc, revision, canonical, rs, fd, exhausted, clock, gc, co>>

\* The identities of `timetables` whose events are not all of upstream's.
CutShort(timetables) ==
    {timetables[n].identity : n \in
        {m \in 1..Len(timetables) :
            timetables[m].events # UpstreamEvents(timetables[m].identity)}}

\* One turn of the fetch loop: api.fetch_category_items_timetables(group, ...).
GatherFetch ==
    /\ ge.pc = "fetch"
    /\ \E res \in FetchOutcomes, known \in SUBSET Identities :
        \E r \in {fetch_category_items_timetables(cache,
                      ge.timetables_to_fetch[ge.fetched + 1].group,
                      ge.timetables_to_fetch[ge.fetched + 1].identities,
                      ge.start_date, ge.end_date, None, res, known)} :
            /\ cache' = r.cache
            /\ requests' = requests \o r.requests
            /\ writes' = writes \o r.writes
            /\ exhausted' = (exhausted \/ (r.requests # <<>> /\ ~res.ok))
            /\ narrow' = (narrow \ {r.timetables[n].identity :
                                       n \in 1..Len(r.timetables)})
                            \cup CutShort(r.timetables)
            /\ IF r.error # "none"
               THEN ge' = Raised(ge, r.error)
               ELSE ge' = [ge EXCEPT
                       !.fetched = @ + 1,
                       !.pc = IF ge.fetched + 1 = Len(ge.timetables_to_fetch)
                              THEN "returned" ELSE "fetch",
                       !.events = @ \o ConcatEvents(r.timetables),
                       !.unknown = @ \cup
                           ({ge.timetables_to_fetch[ge.fetched + 1].identities[n] :
                               n \in 1..Len(ge.timetables_to_fetch[ge.fetched + 1]
                                                .identities)} \ known),
                       !.contributions = @ \o
                           [n \in 1..Len(r.timetables) |->
                               [identity |-> r.timetables[n].identity,
                                hit |-> FALSE,
                                events |-> r.timetables[n].events]]]
    /\ UNCHANGED <<fc, revision, canonical, rs, fd, clock, gc, co>>

\* Mutant of WrittenBeforeFailure: a failed write undoes the writes of the
\* loop before it.
WrittenBeforeFailureNone(timetables, k) == <<>>

\* The timetables the loop over data["CategoryEvents"] has stored when
\* `await self.cache.set_category_item_timetable(timetable)` raises for the
\* k-th of them: each earlier one was stored by a call of its own.
WrittenBeforeFailure(timetables, k) == SubSeq(timetables, 1, k - 1)

\* One turn of the fetch loop in which the request is answered and the k-th
\* cache write of fetch_category_items_timetables raises (the Valkey client
\* gives up on the request): the exception leaves gather_events.
GatherFetchWriteFails ==
    /\ ge.pc = "fetch"
    /\ \E res \in {o \in FetchOutcomes : o.ok}, known \in SUBSET Identities :
        LET group == ge.timetables_to_fetch[ge.fetched + 1].group
            identities == ge.timetables_to_fetch[ge.fetched + 1].identities
            range == calc_start_end_range(ge.start_date, ge.end_date)
            data == CategoryEvents(group, identities, known)
            parsed == [n \in 1..Len(data) |-> TimetableFromPayload(data[n])]
        IN  /\ ~range.raised
            /\ \E k \in 1..Len(parsed) :
                LET stored == WrittenBeforeFailure(parsed, k)
                    returned == [n \in 1..Len(stored) |->
                        ReturnedTimetable(stored[n], range.start, range.end)]
                IN  /\ cache' = StoreTimetables(cache, stored,
                                                range.start, range.end)
                    /\ requests' = Append(requests,
                                          TimetablesRequest(group, identities))
                    /\ writes' = writes \o [n \in 1..(k - 1) |->
                                               TimetableKey(parsed[n].identity)]
                    /\ narrow' = (narrow \ {stored[n].identity :
                                                n \in 1..Len(stored)})
                                    \cup CutShort(returned)
                    /\ ge' = Raised(ge, "RequestError")
    /\ UNCHANGED <<fc, revision, canonical, rs, fd, exhausted, clock, gc, co>>

\* group_identities as the probes of a call went through it.
RECURSIVE Probed(_)
Probed(probes) ==
    IF probes = <<>> THEN <<>>
    ELSE AppendToFetch(Probed(SubSeq(probes, 1, Len(probes) - 1)),
                       probes[Len(probes)].group, probes[Len(probes)].identity)

\* The caller of a gather_events that has returned, or has raised in its
\* fetch loop, calls it again with the same arguments.  The new frame keeps
\* whether the earlier call failed, the keys it had written, and the
\* identities upstream had sent it no timetable for (history).
GatherAgain ==
    /\ ge.pc \in {"raised", "returned"}
    /\ ge.todo = <<>>
    /\ ge.probes # <<>>
    /\ LET todo == Probed(ge.probes)
       IN  ge' = [GeIdle EXCEPT !.pc = PcAfterProbe(todo, <<>>),
                                !.todo = todo,
                                !.start_date = ge.start_date,
                                !.end_date = ge.end_date,
                                !.after = Some(
                                    [failed |-> ge.pc = "raised",
                                     written |-> {writes[n] : n \in 1..Len(writes)},
                                     unknown |-> ge.unknown])]
    /\ requests' = <<>>
    /\ writes' = <<>>
    /\ exhausted' = FALSE
    /\ UNCHANGED <<cache, narrow, fc, revision, canonical, rs, fd, clock, gc, co>>

(***************************************************************************)
(* Category items: ValkeyCache.set_category_item / get_category_item,      *)
(* API.get_category_item, API.fetch_category_item, API.get_category.       *)
(***************************************************************************)
set_category_item(c, item) == CacheSet(c, ItemKey(item.identity), item, None)

cache_get_category_item(c, item_id) == CacheGet(c, ItemKey(item_id))

\* API.get_category_item
get_category_item(c, item_identity) == cache_get_category_item(c, item_identity)

\* The identifiers there are: those of the upstream items, and "u6" of none.
ItemIdentities == {"u1", "u2", "u3", "u4", "u5", "u6"}

\* UUID(code): the identifier a raw code spells, in its canonical form, or
\* None where UUID raises ValueError.  Braces and the urn prefix are dropped.
UUIDParse(code) ==
    LET hex == SelectSeq(code, LAMBDA ch : ch \notin {"{", "}", "urn:uuid:"})
    IN  IF Len(hex) = 1 /\ hex[1] \in ItemIdentities THEN Some(hex[1]) ELSE None

\* Upstream's answer to the single-item request: the items of the category
\* type with that identity.
UpstreamItem(category_type, item_identity, rev) ==
    SelectSeq(UpstreamItems(category_type, rev),
              LAMBDA p : p.Identity = item_identity)

ItemRequest(category_type, item_identity) ==
    [path |-> "Item", category_type |-> category_type,
     identity |-> item_identity]

\* API.fetch_category_item.  `res` is how _fetch_data ended.  The
\* InvalidCodeError for an empty answer carries item_identity, the UUID: as
\* text, the identifier in its canonical form.
fetch_category_item(c, category_type, item_identity, cacheFlag, res, rev) ==
    LET cacheOn == IF cacheFlag = None THEN TRUE ELSE cacheFlag[1]
        data == UpstreamItem(category_type, item_identity, rev)
        none == [error |-> "none", code |-> None, cache |-> c, item |-> None,
                 requests |-> <<ItemRequest(category_type, item_identity)>>,
                 writes |-> <<>>, data |-> "none"]
    IN  IF ~res.ok THEN [none EXCEPT !.error = "ClientResponseError"]
        ELSE IF data = <<>>
        THEN [none EXCEPT !.error = "InvalidCodeError",
                          !.code = Some(<<item_identity>>),
                          !.data = "empty"]
        ELSE IF ItemFromPayloadRaises(data[1])
        THEN [none EXCEPT !.error = "ValueError", !.data = "unparsable"]
        ELSE LET item == ItemFromPayload(data[1])
             IN  [none EXCEPT
                     !.item = Some(item),
                     !.data = "item",
                     !.cache = IF cacheOn THEN set_category_item(c, item) ELSE c,
                     !.writes = IF cacheOn THEN <<ItemKey(item.identity)>>
                                ELSE <<>>]

\* rapidfuzz.utils.default_process: lower case, every character that is not
\* alphanumeric made a space, and the whole stripped.
Lower(ch) ==
    CASE ch = "A" -> "a"
      [] ch = "B" -> "b"
      [] ch = "X" -> "x"
      [] OTHER -> ch

NonAlphanumeric == {" ", ".", ",", "&", "{", "}"}

default_process(text) ==
    Strip([n \in 1..Len(text) |->
              IF text[n] \in NonAlphanumeric THEN " " ELSE Lower(text[n])])

Max(numbers) == CHOOSE n \in numbers : \A m \in numbers : m <= n

\* The length of the longest common subsequence of two texts.
RECURSIVE LCS(_, _)
LCS(s1, s2) ==
    IF s1 = <<>> \/ s2 = <<>> THEN 0
    ELSE IF Head(s1) = Head(s2) THEN 1 + LCS(Tail(s1), Tail(s2))
    ELSE Max({LCS(Tail(s1), s2), LCS(s1, Tail(s2))})

\* rapidfuzz.fuzz.ratio: the normalized Indel similarity, in percent (the
\* whole percents of it: a score is at least 80 exactly when this is).
ratio(s1, s2) ==
    IF Len(s1) + Len(s2) = 0 THEN 100
    ELSE (200 * LCS(s1, s2)) \div (Len(s1) + Len(s2))

\* The stretches of the longer text the shorter one is aligned with: its
\* beginnings shorter than the needle, its stretches as long as the needle,
\* and its ends shorter than the needle.
Windows(needle, haystack) ==
    {SubSeq(haystack, 1, n) : n \in 1..(Len(needle) - 1)}
        \cup {SubSeq(haystack, n + 1, n + Len(needle)) :
                 n \in 0..(Len(haystack) - Len(needle))}
        \cup {SubSeq(haystack, n + 1, Len(haystack)) :
                 n \in (Len(haystack) - Len(needle) + 1)..(Len(haystack) - 1)}

\* rapidfuzz.fuzz.partial_ratio: the best ratio of the shorter text with a
\* stretch of the longer one.
partial_ratio(s1, s2) ==
    IF s1 = <<>> \/ s2 = <<>> THEN (IF s1 = s2 THEN 100 ELSE 0)
    ELSE IF Len(s1) <= Len(s2)
    THEN Max({ratio(s1, w) : w \in Windows(s1, s2)})
    ELSE Max({ratio(s2, w) : w \in Windows(s2, s1)})

\* api.py 258: score_cutoff=80
ScoreCutoff == 80

\* rapidfuzz.process.extract ignores a match whose similarity is below
\* score_cutoff: a score equal to the cutoff is kept.
ScoreKept(score) == score >= ScoreCutoff

\* The score process.extract gives a name for a query, both processed.
Score(name, query) ==
    partial_ratio(default_process(query), default_process(name))

\* API._filter_category_items_for: the items process.extract keeps, the
\* highest score first and the listing's order among equal scores, at most
\* `limit` of them.
filter_category_items_for(category_items, query, limit) ==
    LET kept == {n \in 1..Len(category_items) :
                    ScoreKept(Score(category_items[n].name, query))}
        Before(m, n) ==
            \/ Score(category_items[m].name, query)
                   > Score(category_items[n].name, query)
            \/ /\ Score(category_items[m].name, query)
                      = Score(category_items[n].name, query)
               /\ m < n
        Rank(n) == Cardinality({m \in kept : Before(m, n)}) + 1
        length == IF limit = None \/ Cardinality(kept) <= limit[1]
                  THEN Cardinality(kept) ELSE limit[1]
    IN  [r \in 1..length |->
            category_items[CHOOSE n \in kept : Rank(n) = r]]

\* Mutant of get_category: a missing listing is read as an empty one.
GetCategoryNeverAbsent(c, category_type, query, limit) ==
    Some([items |-> <<>>, count |-> 0])

\* API.get_category with items_type BasicCategoryItem
get_category(c, category_type, query, limit) ==
    LET cached == cache_get_category(c, category_type)
        items == [n \in 1..Len(cached[1].items) |-> BasicItem(cached[1].items[n])]
    IN  IF cached = None THEN None
        ELSE IF query # None /\ Strip(query[1]) # <<>>
        THEN LET filtered == filter_category_items_for(items, query[1], limit)
             IN  Some([items |-> filtered, count |-> Len(filtered)])
        ELSE Some([items |-> items, count |-> cached[1].count])

(***************************************************************************)
(* utils.resolve_to_category_items.                                        *)
(***************************************************************************)
\* The (group, code) pairs original_codes is made of: identifiers in braces,
\* codes with and without a match in the listing of their group, and a blank
\* code.
CodeInputs ==
    {<<"LOCATIONS", <<"{", "u2", "}">>>>,
     <<"LOCATIONS", <<"{", "u4", "}">>>>,
     <<"LOCATIONS", <<"CSC">>>>,
     <<"MODULES", <<" ">>>>,
     <<"MODULES", <<"CSC">>>>,
     <<"MODULES", <<"MAT">>>>}

\* original_codes, as the sequence of pairs its two loops go through: at most
\* MaxCodes codes, the codes of one group together.
OriginalCodes ==
    {codes \in UNION {[1..n -> CodeInputs] : n \in 1..MaxCodes} :
        \A i, j, k \in 1..Len(codes) :
            (i < j /\ j < k /\ codes[i][1] = codes[k][1]) =>
                codes[j][1] = codes[i][1]}

RsIdle ==
    [pc |-> "idle", original |-> <<>>, todo |-> <<>>, group |-> "none",
     code |-> <<>>, codes |-> <<>>, log |-> <<>>, error |-> "none",
     error_code |-> None, result |-> None]

\* What the log holds of the resolution of one code: whether it parsed as an
\* identifier, whether item:<id> was in the cache when its turn came, what
\* upstream answered, whether the cached listing was read and what
\* get_category made of it, the query the category search was called with,
\* where its requests and writes start, and how it ended.
LogEntry(group, code) ==
    [group |-> group, code |-> code, item_id |-> UUIDParse(code),
     cached |-> /\ UUIDParse(code) # None
                /\ ItemKey(UUIDParse(code)[1]) \in DOMAIN cache,
     data |-> "none", listing_read |-> FALSE, listing |-> None,
     search |-> None,
     first_request |-> Len(requests), first_write |-> Len(writes),
     outcome |-> "pending"]

\* The log with its last entry changed.
Logged(log, entry) == [log EXCEPT ![Len(log)] = entry]

\* Mutant of RsRaised: the failure of a code is passed over and the loop
\* goes on.
RsRaisedGoesOn(frame, error, code) ==
    [frame EXCEPT !.pc = IF frame.todo = <<>> THEN "raised" ELSE "code",
                  !.error = error, !.error_code = code,
                  !.log = Logged(@, [@[Len(@)] EXCEPT !.outcome = error])]

\* An exception leaves resolve_to_category_items; `code` is what an
\* InvalidCodeError carries.
RsRaised(frame, error, code) ==
    [frame EXCEPT !.pc = "raised", !.error = error, !.error_code = code,
                  !.log = Logged(@, [@[Len(@)] EXCEPT !.outcome = error])]

\* Mutant of RsAppend: the item is put in front of those of its group.
RsPrepend(frame, item) ==
    [frame EXCEPT !.pc = IF frame.todo = <<>> THEN "returned" ELSE "code",
                  !.codes = <<[group |-> frame.group, item |-> item]>> \o @,
                  !.result = IF frame.todo = <<>>
                             THEN Some(<<[group |-> frame.group,
                                          item |-> item]>> \o frame.codes)
                             ELSE None,
                  !.log = Logged(@, [@[Len(@)] EXCEPT !.outcome = "item"])]

\* codes[group].append(item), and on to the next code or to `return codes`.
\* codes is kept as the sequence of the appends: the list of a group is the
\* items of that group in it.
RsAppend(frame, item) ==
    [frame EXCEPT !.pc = IF frame.todo = <<>> THEN "returned" ELSE "code",
                  !.codes = Append(@, [group |-> frame.group, item |-> item]),
                  !.result = IF frame.todo = <<>>
                             THEN Some(Append(frame.codes,
                                        [group |-> frame.group, item |-> item]))
                             ELSE None,
                  !.log = Logged(@, [@[Len(@)] EXCEPT !.outcome = "item"])]

\* A call of utils.resolve_to_category_items(original_codes, api).
ResolveCall(original_codes) ==
    /\ Idle
    /\ rs' = [RsIdle EXCEPT !.pc = "code", !.original = original_codes,
                            !.todo = original_codes]
    /\ requests' = <<>>
    /\ writes' = <<>>
    /\ exhausted' = FALSE
    /\ UNCHANGED <<cache, ge, narrow, fc, revision, canonical, fd, clock, gc, co>>

\* Mutant of ItemFound: the cached item is never used.
ItemFoundNever(item) == FALSE

\* `await api.get_category_item(item_id) or ...`: a cached item is truthy.
ItemFound(item) == item # None

\* The head of the loop body: item_id = UUID(code), and, when that does not
\* raise, the read of the item cache in resolve_from_uuid.
ResolveCode ==
    /\ rs.pc = "code"
    /\ LET group == Head(rs.todo)[1]
           code == Head(rs.todo)[2]
           entry == LogEntry(group, code)
           next == [rs EXCEPT !.todo = Tail(@), !.group = group, !.code = code,
                              !.log = Append(@, entry)]
           item_id == UUIDParse(code)
       IN  IF item_id = None
           THEN rs' = [next EXCEPT !.pc = "from_code"]
           ELSE LET item == get_category_item(cache, item_id[1])
                IN  IF ItemFound(item)
                    THEN rs' = RsAppend(next, item[1])
                    ELSE rs' = [next EXCEPT !.pc = "fetch_item"]
    /\ UNCHANGED <<cache, requests, writes, ge, narrow, fc, revision, canonical, fd, exhausted, clock, gc, co>>

\* Mutant of Caught: `except Exception:`.
CaughtAnyException(error) == TRUE

\* `except ValueError:` around UUID(code) and resolve_from_uuid
Caught(error) == error = "ValueError"

\* `await api.fetch_category_item(category_type, item_id)` in
\* resolve_from_uuid, inside the try block.
ResolveFetchItem ==
    /\ rs.pc = "fetch_item"
    /\ \E res \in FetchOutcomes :
        \E r \in {fetch_category_item(cache, rs.group, UUIDParse(rs.code)[1],
                                      None, res, revision)} :
            LET entry == [rs.log[Len(rs.log)] EXCEPT !.data = r.data]
                seen == [rs EXCEPT !.log = Logged(@, entry)]
            IN  /\ cache' = r.cache
                /\ requests' = requests \o r.requests
                /\ writes' = writes \o r.writes
                /\ exhausted' = (exhausted \/ ~res.ok)
                /\ rs' = IF r.error = "none" THEN RsAppend(seen, r.item[1])
                         ELSE IF Caught(r.error)
                         THEN [seen EXCEPT !.pc = "from_code"]
                         ELSE RsRaised(seen, r.error, r.code)
    /\ UNCHANGED <<ge, narrow, fc, revision, canonical, fd, clock, gc, co>>

\* Mutant of ListingMatched: the cached listing is not used.
ListingNeverMatched(category) == FALSE

\* `if category and category.items:`
ListingMatched(category) == category # None /\ category[1].items # <<>>

\* resolve_from_code up to its fetch: the cached listing is filtered for the
\* code; without a match the category search starts.
ResolveFromCode ==
    /\ rs.pc = "from_code"
    /\ \E category \in {get_category(cache, rs.group, Some(rs.code), Some(1))} :
       LET read == [rs EXCEPT !.log = Logged(@,
                       [@[Len(@)] EXCEPT !.listing_read = TRUE,
                                         !.listing = category])]
       IN  IF ListingMatched(category)
           THEN /\ rs' = RsAppend(read, category[1].items[1])
                /\ UNCHANGED fc
           ELSE /\ rs' = [read EXCEPT
                           !.pc = "search",
                           !.log = Logged(@,
                               [@[Len(@)] EXCEPT !.search = Some(rs.code)])]
                /\ FetchCategoryStart("resolve", rs.group, Some(rs.code),
                                      None, TRUE)
    /\ UNCHANGED <<cache, requests, writes, ge, narrow, revision, canonical, fd, exhausted, clock, gc, co>>

\* resolve_from_code after its fetch, and `if not item: raise
\* models.InvalidCodeError(code)`.
ResolveSearchEnd ==
    /\ rs.pc = "search"
    /\ fc.caller = "resolve"
    /\ fc.pc \in {"returned", "raised"}
    /\ rs' = IF fc.pc = "raised" THEN RsRaised(rs, fc.error, None)
             ELSE IF fc.result[1].items # <<>>
             THEN RsAppend(rs, fc.result[1].items[1])
             ELSE RsRaised(rs, "InvalidCodeError", Some(rs.code))
    /\ fc' = FcIdle
    /\ UNCHANGED <<cache, requests, writes, ge, narrow, revision, canonical, fd, exhausted, clock, gc, co>>

\* A call of api._fetch_data(path, ...); `responses` is how the transport
\* will answer the requests, in order.
FetchDataCall(path, responses) ==
    /\ Idle
    /\ fd' = [FdIdle EXCEPT !.pc = "request", !.path = path,
                            !.responses = responses]
    /\ UNCHANGED <<cache, requests, writes, ge, narrow, fc, revision, canonical, rs, exhausted, clock, gc, co>>

\* `async with self.session.request(...) as res:` and what follows the
\* response: the body is returned, or the error is raised, or retries grows.
FetchDataRequest ==
    /\ fd.pc = "request"
    /\ LET sent == [fd EXCEPT !.trace = Append(@,
                        [kind |-> "request", path |-> fd.path])]
           ok == fd.responses[Len(Sent(sent.trace))]
       IN  fd' = IF ok THEN [sent EXCEPT !.pc = "returned", !.result = "body"]
                 ELSE IF RetriesExhausted(fd.retries)
                 THEN [sent EXCEPT !.pc = "raised",
                                   !.result = "ClientResponseError"]
                 ELSE [sent EXCEPT !.pc = "sleep", !.retries = @ + 1]
    /\ UNCHANGED <<cache, requests, writes, ge, narrow, fc, revision, canonical, rs, exhausted, clock, gc, co>>

\* `async with self.session.request(...) as res:` when the transport gives
\* no response (the connection fails or times out): session.request raises,
\* and, no try statement standing around it, the exception leaves
\* _fetch_data at once.
FetchDataNoResponse ==
    /\ fd.pc = "request"
    /\ fd' = [fd EXCEPT !.pc = "raised",
                        !.result = "ClientConnectionError",
                        !.trace = Append(@, [kind |-> "request",
                                             path |-> fd.path])]
    /\ UNCHANGED <<cache, requests, writes, ge, narrow, fc, revision, canonical, rs, exhausted, clock, gc, co>>

\* await asyncio.sleep(5); continue
FetchDataSleep ==
    /\ fd.pc = "sleep"
    /\ fd' = [fd EXCEPT !.pc = "request",
                        !.trace = Append(@, [kind |-> "sleep",
                                             seconds |-> SleepSeconds])]
    /\ UNCHANGED <<cache, requests, writes, ge, narrow, fc, revision, canonical, rs, exhausted, clock, gc, co>>

\* A top-level call of api.fetch_category.
FetchCategoryCall(category_type, query, cacheFlag, basic) ==
    /\ Idle
    /\ FetchCategoryStart("top", category_type, query, cacheFlag, basic)
    /\ requests' = <<>>
    /\ writes' = <<>>
    /\ exhausted' = FALSE
    /\ UNCHANGED <<cache, ge, narrow, revision, canonical, rs, fd, clock, gc, co>>

(***************************************************************************)
(* Fetch operations running concurrently on one event loop.  A task is     *)
(* suspended at each `await` and the others run meanwhile: while a request  *)
(* is in flight, during asyncio.sleep, and at each cache write.             *)
(***************************************************************************)
\* The tasks of the event loop that run a fetch operation.
Tasks == {"a", "b"}

\* The operations a task runs: the whole listing of a type (of several
\* pages, and of one page at first), an item, and the timetables of one
\* identity and of two.
CoCalls ==
    {[op |-> "fetch_category", category_type |-> "MODULES",
      identities |-> <<>>],
     [op |-> "fetch_category", category_type |-> "LOCATIONS",
      identities |-> <<>>],
     [op |-> "fetch_category_item", category_type |-> "MODULES",
      identities |-> <<"u1">>],
     [op |-> "fetch_category_items_timetables", category_type |-> "MODULES",
      identities |-> <<"u2">>],
     [op |-> "fetch_category_items_timetables", category_type |-> "MODULES",
      identities |-> <<"u1", "u2">>]}

\* The cache keys an operation writes when it succeeds.
CoKeys(call) ==
    IF call.op = "fetch_category" THEN {CategoryKey(call.category_type)}
    ELSE IF call.op = "fetch_category_item"
    THEN {ItemKey(call.identities[n]) : n \in 1..Len(call.identities)}
    ELSE {TimetableKey(call.identities[n]) : n \in 1..Len(call.identities)}

\* The frame of a task: the operation, its calls of _fetch_data (for
\* fetch_category one per page, the page number being the index; otherwise
\* one), each with its retry count and the revision upstream answered at,
\* the values it has built, how many of them it has stored, and the keys
\* that were missing when it started (history).
CoIdle ==
    [pc |-> "idle", call |-> [op |-> "none"], calls |-> <<>>, value |-> <<>>,
     stored |-> 0, error |-> "none", missing |-> {}]

CoPending == [state |-> "pending", retries |-> 0, sent |-> 0, rev |-> 0]

\* The most bad answers upstream gives in a behaviour.
MaxFaults == 4

\* The bad answers upstream has given so far: one for each retry and one
\* for each call that ended with an exception.
RECURSIVE CoFaultsOf(_)
CoFaultsOf(calls) ==
    IF calls = <<>> THEN 0
    ELSE Head(calls).retries + (IF Head(calls).state = "error" THEN 1 ELSE 0)
             + CoFaultsOf(Tail(calls))

RECURSIVE CoFaults(_)
CoFaults(tasks) ==
    IF tasks = {} THEN 0
    ELSE LET t == CHOOSE x \in tasks : TRUE
         IN  CoFaultsOf(co[t].calls) + CoFaults(tasks \ {t})

\* A task starts one of the operations.
CoCall(t, call) ==
    /\ co[t].pc = "idle"
    /\ co' = [co EXCEPT ![t] =
                 [CoIdle EXCEPT !.pc = "fetching", !.call = call,
                                !.calls = <<CoPending>>,
                                !.missing = CoKeys(call) \ DOMAIN cache]]
    /\ UNCHANGED <<cache, requests, writes, ge, narrow, fc, revision, canonical,
                   rs, fd, exhausted, clock, gc>>

\* Mutant of PagesToGather: page 2 is requested whatever page 1 reported,
\* and no page after it.
PagesToGatherBlind(total_pages) == <<CoPending>>

\* `if total_pages > 1:` asyncio.gather(... for i in range(2, total_pages + 1))
PagesToGather(total_pages) ==
    IF total_pages > 1 THEN [k \in 1..(total_pages - 1) |-> CoPending]
    ELSE <<>>

\* Mutant of CoRunnable: a sleeping call holds up every other call (a sleep
\* that blocks the event loop).
CoRunnableAlone(t, k) ==
    /\ co[t].calls[k].state = "pending"
    /\ \A u \in Tasks : \A n \in 1..Len(co[u].calls) :
           co[u].calls[n].state # "sleeping"

\* A call of _fetch_data can go on: it is not in `await asyncio.sleep(5)`,
\* which suspends that call alone, and has not ended.  The calls gathered
\* by asyncio.gather are tasks of their own.
CoRunnable(t, k) == co[t].calls[k].state = "pending"

\* One round of the loop of _fetch_data in a task: the request is sent
\* (`sent` counts the requests of the call) and answered.  A good answer ends the call (the first page's starts the
\* calls for the other pages); a bad one ends it with an exception when the
\* retries are used up, and otherwise puts the task's call to sleep.
CoFetchDataOf(t, k, ok) ==
        LET frame == co[t]
            this == [co[t].calls[k] EXCEPT !.sent = @ + 1]
            first == frame.call.op = "fetch_category" /\ k = 1
            total_pages == UpstreamPage(frame.call.category_type,
                                        QueryParam(None), revision, 1).TotalPages
        IN  /\ frame.pc = "fetching"
            /\ CoRunnable(t, k)
            /\ co' = [co EXCEPT ![t] =
                  IF ok
                  THEN [frame EXCEPT
                           !.calls = [@ EXCEPT ![k] = [this EXCEPT
                                                          !.state = "ok",
                                                          !.rev = revision]]
                                         \o (IF first THEN PagesToGather(total_pages)
                                             ELSE <<>>)]
                  ELSE IF RetriesExhausted(this.retries)
                  THEN [frame EXCEPT !.calls[k] = [this EXCEPT !.state = "error"]]
                  ELSE [frame EXCEPT !.calls[k] = [this EXCEPT
                                                      !.state = "sleeping",
                                                      !.retries = @ + 1]]]
            /\ UNCHANGED <<cache, requests, writes, ge, narrow, fc, revision,
                           canonical, rs, fd, exhausted, clock, gc>>

CoFetchData ==
    \E t \in Tasks :
      \E k \in 1..Len(co[t].calls),
         ok \in {TRUE} \cup {FALSE : n \in 1..(MaxFaults - CoFaults(Tasks))} :
        CoFetchDataOf(t, k, ok)

\* `await asyncio.sleep(5)` of one call is over: `continue`.
CoSleepOver ==
    \E t \in Tasks :
      \E k \in {n \in 1..Len(co[t].calls) : co[t].calls[n].state = "sleeping"} :
        /\ co' = [co EXCEPT ![t].calls[k].state = "pending"]
        /\ UNCHANGED <<cache, requests, writes, ge, narrow, fc, revision,
                       canonical, rs, fd, exhausted, clock, gc>>

\* The calls of _fetch_data a task awaits have all ended.
CoAnswered(frame) ==
    /\ frame.pc = "fetching"
    /\ \A n \in 1..Len(frame.calls) : frame.calls[n].state \in {"ok", "error"}

\* What the pages of a fetch_category held, as asyncio.gather returns them:
\* in the order of the pages.
CoPages(frame) ==
    [n \in 1..(Len(frame.calls) - 1) |->
        IF frame.calls[n + 1].state = "ok"
        THEN [state |-> "ok",
              results |-> UpstreamPage(frame.call.category_type, QueryParam(None),
                                       frame.calls[n + 1].rev, n + 1).Results]
        ELSE [state |-> "error", results |-> <<>>]]

CoRaised(frame, error) == [frame EXCEPT !.pc = "raised", !.error = error]

\* fetch_category after its requests: the exception of page 1 or of the
\* first failed page, or the Category, written to the cache and returned.
CoFetchCategoryEnd ==
    \E t \in Tasks :
        \E frame \in {co[t]} :
            /\ CoAnswered(frame)
            /\ frame.call.op = "fetch_category"
            /\ \E first \in {UpstreamPage(frame.call.category_type, QueryParam(None),
                                          frame.calls[1].rev, 1)},
                  pages \in {CoPages(frame)} :
               \E final_data \in {[Results |-> ExtendResults(first.Results, pages),
                                   Count |-> first.Count]} :
               IF frame.calls[1].state = "error" \/ PagesRaise(pages)
               THEN /\ co' = [co EXCEPT ![t] = CoRaised(frame, "ClientResponseError")]
                    /\ UNCHANGED <<cache, writes>>
               ELSE IF CategoryFromPayloadRaises(final_data)
               THEN /\ co' = [co EXCEPT ![t] = CoRaised(frame, "ValueError")]
                    /\ UNCHANGED <<cache, writes>>
               ELSE \E category \in {CategoryFromPayload(final_data)} :
                    /\ co' = [co EXCEPT ![t] = [frame EXCEPT !.pc = "returned",
                                                            !.value = <<category>>,
                                                            !.stored = 1]]
                    /\ cache' = set_category(cache, frame.call.category_type,
                                             category)
                    /\ writes' = Append(writes,
                           [task |-> t,
                            key |-> CategoryKey(frame.call.category_type)])
            /\ UNCHANGED <<requests, ge, narrow, fc, revision, canonical, rs, fd,
                           exhausted, clock, gc>>

\* fetch_category_item after its request: the exception, or the item,
\* written to the cache and returned.
CoFetchItemEnd ==
    \E t \in Tasks :
        LET frame == co[t]
        IN  /\ CoAnswered(frame)
            /\ frame.call.op = "fetch_category_item"
            /\ \E r \in {fetch_category_item(cache, frame.call.category_type,
                                             frame.call.identities[1], None,
                                             [ok |-> frame.calls[1].state = "ok"],
                                             frame.calls[1].rev)} :
               IF r.error # "none"
               THEN /\ co' = [co EXCEPT ![t] = CoRaised(frame, r.error)]
                    /\ UNCHANGED <<cache, writes>>
               ELSE /\ co' = [co EXCEPT ![t] = [frame EXCEPT !.pc = "returned",
                                                            !.value = r.item,
                                                            !.stored = 1]]
                    /\ cache' = r.cache
                    /\ writes' = writes \o [n \in 1..Len(r.writes) |->
                                               [task |-> t, key |-> r.writes[n]]]
            /\ UNCHANGED <<requests, ge, narrow, fc, revision, canonical, rs, fd,
                           exhausted, clock, gc>>

\* fetch_category_items_timetables after its request: the exception, or
\* the timetables of data["CategoryEvents"], which the loop then stores one
\* by one.
CoFetchTimetablesAnswer ==
    \E t \in Tasks :
        LET frame == co[t]
            data == CategoryEvents(frame.call.category_type,
                                   frame.call.identities, Identities)
        IN  /\ CoAnswered(frame)
            /\ frame.call.op = "fetch_category_items_timetables"
            /\ co' = [co EXCEPT ![t] =
                  IF frame.calls[1].state = "error"
                  THEN CoRaised(frame, "ClientResponseError")
                  ELSE [frame EXCEPT
                           !.pc = "storing",
                           !.value = [n \in 1..Len(data) |->
                                         TimetableFromPayload(data[n])]]]
            /\ UNCHANGED <<cache, requests, writes, ge, narrow, fc, revision,
                           canonical, rs, fd, exhausted, clock, gc>>

\* One round of the loop over data["CategoryEvents"]:
\* `await self.cache.set_category_item_timetable(timetable)`; after the last
\* one the filtered timetables are returned.
CoStoreTimetable ==
    \E t \in Tasks :
        LET frame == co[t]
            range == calc_start_end_range(None, None)
            timetable == frame.value[frame.stored + 1]
        IN  /\ frame.pc = "storing"
            /\ cache' = set_category_item_timetable(
                            cache,
                            StoredTimetable(timetable, range.start, range.end))
            /\ writes' = Append(writes,
                                [task |-> t, key |-> TimetableKey(timetable.identity)])
            /\ co' = [co EXCEPT ![t] =
                         [frame EXCEPT
                             !.stored = @ + 1,
                             !.pc = IF frame.stored + 1 = Len(frame.value)
                                    THEN "returned" ELSE "storing"]]
            /\ UNCHANGED <<requests, ge, narrow, fc, revision, canonical, rs, fd,
                           exhausted, clock, gc>>

\* A top-level call of api.get_category: one read of the store.
GetCategoryCall(category_type, query, limit) ==
    /\ Idle
    /\ gc' = [GcIdle EXCEPT
                 !.pc = "returned", !.category_type = category_type,
                 !.query = query, !.limit = limit,
                 !.result = get_category(cache, category_type, query, limit),
                 !.before = cache]
    /\ cache' = CacheAfterGet(cache, CategoryKey(category_type))
    /\ requests' = <<>>
    /\ writes' = <<>>
    /\ exhausted' = FALSE
    /\ UNCHANGED <<ge, narrow, fc, revision, canonical, rs, fd, clock, co>>

\* A top-level call of api.get_category_item: one read of the store.
GetCategoryItemCall(item_identity) ==
    /\ Idle
    /\ gc' = [GcIdle EXCEPT
                 !.pc = "returned", !.op = "get_category_item",
                 !.item_identity = item_identity,
                 !.result = get_category_item(cache, item_identity),
                 !.before = cache]
    /\ cache' = CacheAfterGet(cache, ItemKey(item_identity))
    /\ requests' = <<>>
    /\ writes' = <<>>
    /\ exhausted' = FALSE
    /\ UNCHANGED <<ge, narrow, fc, revision, canonical, rs, fd, clock, co>>

\* A top-level call of api.get_category_item_timetable: one read of the
\* store, and the filter on what was read when a bound is given.
GetTimetableCall(item_identity, start, end) ==
    /\ Idle
    /\ \E r \in {get_category_item_timetable(cache, item_identity, start, end)} :
          gc' = [GcIdle EXCEPT
                    !.pc = IF r.error = "none" THEN "returned" ELSE "raised",
                    !.op = "get_category_item_timetable",
                    !.item_identity = item_identity,
                    !.start = start, !.end = end,
                    !.error = r.error,
                    !.result = r.timetable,
                    !.before = cache]
    /\ cache' = CacheAfterGet(cache, TimetableKey(item_identity))
    /\ requests' = <<>>
    /\ writes' = <<>>
    /\ exhausted' = FALSE
    /\ UNCHANGED <<ge, narrow, fc, revision, canonical, rs, fd, clock, co>>

\* A call of utils.default_year_start_end_dates on the current date.
DefaultDatesCall ==
    /\ clock.pc = "idle"
    /\ clock' = [clock EXCEPT
                    !.pc = "done",
                    !.result = Some(default_year_start_end_dates(clock.now))]
    /\ UNCHANGED <<cache, requests, writes, ge, narrow, fc, revision, canonical, rs,
                   fd, exhausted, gc, co>>

\* The caller takes the outcome of the finished operation.
Done ==
    /\ Finished
    /\ ge' = GeIdle
    /\ fc' = FcIdle
    /\ rs' = RsIdle
    /\ fd' = FdIdle
    /\ gc' = GcIdle
    /\ co' = [t \in DOMAIN co |->
                 IF co[t].pc \in {"returned", "raised"} THEN CoIdle ELSE co[t]]
    /\ requests' = <<>>
    /\ writes' = <<>>
    /\ exhausted' = FALSE
    /\ UNCHANGED <<cache, narrow, revision, canonical, clock>>

\* TickHours hours pass, between two operations or between two probes.
Tick ==
    /\ Idle \/ ge.pc = "probe"
    /\ cache # EmptyCache
    /\ cache' = Aged(cache, TickHours)
    /\ narrow' = {i \in narrow : TimetableKey(i) \in DOMAIN cache'}
    /\ canonical' = [t \in CategoryType |->
                        IF CategoryKey(t) \in DOMAIN cache' THEN canonical[t]
                        ELSE None]
    /\ UNCHANGED <<requests, writes, ge, fc, revision, rs, fd, exhausted, clock, gc, co>>

Init ==
    /\ cache = EmptyCache
    /\ requests = <<>>
    /\ writes = <<>>
    /\ ge = GeIdle
    /\ narrow = {}
    /\ fc = FcIdle
    /\ revision = 0
    /\ canonical = [t \in CategoryType |-> None]
    /\ rs = RsIdle
    /\ fd = FdIdle
    /\ exhausted = FALSE
    /\ clock = ClockIdle(Now)
    /\ gc = GcIdle
    /\ co = [t \in Tasks |-> CoIdle]

NextGather ==
    \/ \E group_identities \in GroupIdentities, start_date \in RangeBounds,
          end_date \in RangeBounds :
           GatherCall(group_identities, start_date, end_date)
    \/ GatherProbe
    \/ GatherFetch
    \/ Done
    \/ Tick

SpecGather == Init /\ [][NextGather]_vars

NextCategory ==
    \/ \E category_type \in ListingTypes, query \in Queries,
          cacheFlag \in CacheFlags, basic \in BOOLEAN :
           FetchCategoryCall(category_type, query, cacheFlag, basic)
    \/ FetchCategoryFirstPage
    \/ FetchCategoryPage
    \/ FetchCategoryAggregate
    \/ UpstreamUpdate
    \/ Done
    \/ Tick

SpecCategory == Init /\ [][NextCategory]_vars

NextResolve ==
    \/ \E original_codes \in OriginalCodes : ResolveCall(original_codes)
    \/ ResolveCode
    \/ ResolveFetchItem
    \/ ResolveFromCode
    \/ ResolveSearchEnd
    \/ \E category_type \in ListingTypes :
           FetchCategoryCall(category_type, None, None, FALSE)
    \/ FetchCategoryFirstPage
    \/ FetchCategoryPage
    \/ FetchCategoryAggregate
    \/ UpstreamUpdate
    \/ Done
    \/ Tick

SpecResolve == Init /\ [][NextResolve]_vars

\* The three operations that fetch from upstream, on one cache, each called
\* with a few inputs: identities of one type and of two, a batch of one
\* code, the whole listing and a search.
OperationGroups ==
    {<<[group |-> "MODULES", identities |-> <<"u1">>]>>,
     <<[group |-> "MODULES", identities |-> <<"u1", "u2">>]>>,
     <<[group |-> "MODULES", identities |-> <<"u1">>],
       [group |-> "LOCATIONS", identities |-> <<"u2">>]>>}

OperationCodes == {<<pair>> : pair \in CodeInputs}

OperationQueries == {None, Some(<<"CSC">>)}

NextOperations ==
    \/ \E group_identities \in OperationGroups,
          start_date \in {None, Some(StartDefault + 1)} :
           GatherCall(group_identities, start_date, None)
    \/ GatherProbe
    \/ GatherFetch
    \/ \E original_codes \in OperationCodes : ResolveCall(original_codes)
    \/ ResolveCode
    \/ ResolveFetchItem
    \/ ResolveFromCode
    \/ ResolveSearchEnd
    \/ \E category_type \in ListingTypes, query \in OperationQueries :
           FetchCategoryCall(category_type, query, None, FALSE)
    \/ FetchCategoryFirstPage
    \/ FetchCategoryPage
    \/ FetchCategoryAggregate
    \/ UpstreamUpdate
    \/ Done

SpecOperations == Init /\ [][NextOperations]_vars

NextFetchData ==
    \/ \E path \in Paths, responses \in ResponseSeqs :
           FetchDataCall(path, responses)
    \/ FetchDataRequest
    \/ FetchDataSleep
    \/ Done

SpecFetchData == Init /\ [][NextFetchData]_vars

\* _fetch_data on a transport that answers a request or gives no response
\* to it.
NextTransport ==
    \/ \E path \in Paths, responses \in ResponseSeqs :
           FetchDataCall(path, responses)
    \/ FetchDataRequest
    \/ FetchDataNoResponse
    \/ FetchDataSleep
    \/ Done

SpecTransport == Init /\ [][NextTransport]_vars

\* The listing a reader finds cached, in upstream's order: names that score
\* 80, 100, 0 and (after default_process) 100 for the query "xab".
ReaderListing ==
    <<ItemPayload("r2", "MODULES", <<"a", "b", "z", "z", "z">>),
      ItemPayload("r1", "MODULES", <<"x", "a", "b">>),
      ItemPayload("r3", "MODULES", <<"q", "q">>),
      ItemPayload("r4", "MODULES", <<"X", "A", "B", ".">>)>>

ReaderCategory(results) ==
    CategoryFromPayload([Results |-> results, Count |-> Len(results)])

\* The stores get_category is called on: nothing cached, and a listing of
\* modules cached by an earlier fetch_category.
ReaderCaches ==
    {EmptyCache}
        \cup {set_category(EmptyCache, "MODULES",
                           ReaderCategory(SubSeq(ReaderListing, 1, n))) :
                  n \in {1, Len(ReaderListing)}}

\* The queries get_category is called with.
ReaderQueries ==
    {None, Some(<<>>), Some(<<" ">>), Some(<<"x", "a", "b">>),
     Some(<<" ", "X", "A", "B">>), Some(<<"x", "a", "b", "z">>)}

\* The most items a caller of get_category asks for.
MaxLimit == 2

Limits == {None} \cup {Some(n) : n \in 1..MaxLimit}

\* api.get_category alone, on a store an earlier fetch may have filled.
InitReader ==
    /\ cache \in ReaderCaches
    /\ requests = <<>>
    /\ writes = <<>>
    /\ ge = GeIdle
    /\ narrow = {}
    /\ fc = FcIdle
    /\ revision = 0
    /\ canonical = [t \in CategoryType |-> cache_get_category(cache, t)]
    /\ rs = RsIdle
    /\ fd = FdIdle
    /\ exhausted = FALSE
    /\ clock = ClockIdle(Now)
    /\ gc = GcIdle
    /\ co = [t \in Tasks |-> CoIdle]

NextReader ==
    \/ \E category_type \in ListingTypes, query \in ReaderQueries,
          limit \in Limits :
           GetCategoryCall(category_type, query, limit)
    \/ Done
    \/ Tick

SpecReader == InitReader /\ [][NextReader]_vars

\* The operations that write the cache, one after the other, while time
\* passes: between two operations and between two probes of gather_events.
ExpiryGroups ==
    {<<[group |-> "MODULES", identities |-> <<"u1", "u1">>]>>,
     <<[group |-> "MODULES", identities |-> <<"u1", "u2">>]>>}

NextExpiry ==
    \/ \E group_identities \in ExpiryGroups :
           GatherCall(group_identities, None, None)
    \/ GatherProbe
    \/ GatherFetch
    \/ \E original_codes \in OperationCodes : ResolveCall(original_codes)
    \/ ResolveCode
    \/ ResolveFetchItem
    \/ ResolveFromCode
    \/ ResolveSearchEnd
    \/ \E category_type \in ListingTypes, query \in OperationQueries :
           FetchCategoryCall(category_type, query, None, FALSE)
    \/ FetchCategoryFirstPage
    \/ FetchCategoryPage
    \/ FetchCategoryAggregate
    \/ Done
    \/ Tick

SpecExpiry == Init /\ [][NextExpiry]_vars

\* gather_events, called again with the same arguments after it returned or
\* failed in its fetch loop, a request or a cache write having failed.
NextRetry ==
    \/ \E group_identities \in OperationGroups,
          start_date \in {None, Some(StartDefault + 1)} :
           GatherCall(group_identities, start_date, None)
    \/ GatherProbe
    \/ GatherFetch
    \/ GatherFetchWriteFails
    \/ GatherAgain
    \/ Done

SpecRetry == Init /\ [][NextRetry]_vars

\* The read operations, between the operations that write the cache and
\* while time passes.
ReadQueries == {None, Some(<<"CSC">>)}

NextReads ==
    \/ NextExpiry
    \/ \E category_type \in ListingTypes, query \in ReadQueries,
          limit \in {None, Some(1)} :
           GetCategoryCall(category_type, query, limit)
    \/ \E item_identity \in {"u2", "u4"} : GetCategoryItemCall(item_identity)
    \/ \E item_identity \in Identities, start \in RangeBounds,
          end \in RangeBounds :
           GetTimetableCall(item_identity, start, end)

SpecReads == Init /\ [][NextReads]_vars

\* resolve_to_category_items on identifiers alone, each given under its own
\* category type and under another one.
TypedCodeInputs ==
    {<<"MODULES", <<"u1">>>>,
     <<"LOCATIONS", <<"u2">>>>,
     <<"MODULES", <<"u2">>>>,
     <<"LOCATIONS", <<"{", "u1", "}">>>>}

TypedCodes ==
    {codes \in UNION {[1..n -> TypedCodeInputs] : n \in 1..MaxCodes} :
        \A i, j, k \in 1..Len(codes) :
            (i < j /\ j < k /\ codes[i][1] = codes[k][1]) =>
                codes[j][1] = codes[i][1]}

NextTyped ==
    \/ \E original_codes \in TypedCodes : ResolveCall(original_codes)
    \/ ResolveCode
    \/ ResolveFetchItem
    \/ Done
    \/ Tick

SpecTyped == Init /\ [][NextTyped]_vars

\* Every operation that sends requests, one at a time, on a transport that
\* answers every request and a cache that completes every operation: each
\* step of a running operation is taken in the end.  The fetch operations
\* of the API are followed request by request, each call of _fetch_data
\* with its own loop, an answer being good or bad as upstream pleases.
TerminationCodes ==
    {<<<<"MODULES", <<" ">>>>>>,
     <<<<"LOCATIONS", <<"{", "u2", "}">>>>, <<"MODULES", <<"MAT">>>>>>}

\* fetch_category with its requests, retries and sleeps one by one.
TerminationCalls == {call \in CoCalls : call.op = "fetch_category"}

NextTermination ==
    \/ \E group_identities \in OperationGroups :
           GatherCall(group_identities, None, None)
    \/ GatherProbe
    \/ GatherFetch
    \/ \E original_codes \in TerminationCodes : ResolveCall(original_codes)
    \/ ResolveCode
    \/ ResolveFetchItem
    \/ ResolveFromCode
    \/ ResolveSearchEnd
    \/ FetchCategoryFirstPage
    \/ FetchCategoryPage
    \/ FetchCategoryAggregate
    \/ \E call \in TerminationCalls : Idle /\ CoCall("a", call)
    \/ \E k \in 1..Len(co["a"].calls), ok \in BOOLEAN : CoFetchDataOf("a", k, ok)
    \/ CoSleepOver
    \/ CoFetchCategoryEnd
    \/ Done

\* A step of the operation that is running.
TerminationStep ==
    \/ GatherProbe
    \/ GatherFetch
    \/ ResolveCode
    \/ ResolveFetchItem
    \/ ResolveFromCode
    \/ ResolveSearchEnd
    \/ FetchCategoryFirstPage
    \/ FetchCategoryPage
    \/ FetchCategoryAggregate
    \/ \E k \in 1..Len(co["a"].calls), ok \in BOOLEAN : CoFetchDataOf("a", k, ok)
    \/ CoSleepOver
    \/ CoFetchCategoryEnd

\* The event loop goes on with the running operation whenever it can:
\* a request is answered, a sleep ends, a cache operation completes.
FairTermination == WF_vars(TerminationStep)

SpecTermination == Init /\ [][NextTermination]_vars /\ FairTermination

\* Two tasks, each running one fetch operation, on one cache, while
\* upstream changes.
NextConcurrent ==
    \/ \E t \in Tasks, call \in CoCalls : CoCall(t, call)
    \/ CoFetchData
    \/ CoSleepOver
    \/ CoFetchCategoryEnd
    \/ CoFetchItemEnd
    \/ CoFetchTimetablesAnswer
    \/ CoStoreTimetable
    \/ UpstreamUpdate

SpecConcurrent == Init /\ [][NextConcurrent]_vars

\* default_year_start_end_dates alone, on any current date.
InitDates ==
    /\ cache = EmptyCache
    /\ requests = <<>>
    /\ writes = <<>>
    /\ ge = GeIdle
    /\ narrow = {}
    /\ fc = FcIdle
    /\ revision = 0
    /\ canonical = [t \in CategoryType |-> None]
    /\ rs = RsIdle
    /\ fd = FdIdle
    /\ exhausted = FALSE
    /\ \E now \in Dates : clock = ClockIdle(now)
    /\ gc = GcIdle
    /\ co = [t \in Tasks |-> CoIdle]

NextDates == DefaultDatesCall

SpecDates == InitDates /\ [][NextDates]_vars

(***************************************************************************)
(* Properties of gather_events (checked under SpecGather).                 *)
(***************************************************************************)
Range(seq) == {seq[n] : n \in 1..Len(seq)}

\* How often `identity` stands in the identity lists of the requests issued.
RECURSIVE Occurrences(_, _)
Occurrences(identity, reqs) ==
    IF reqs = <<>> THEN 0
    ELSE Len(SelectSeq(Head(reqs).identities, LAMBDA i : i = identity))
             + Occurrences(identity, Tail(reqs))

\* The probes of this call that found no timetable in the cache.
MissProbes == SelectSeq(ge.probes, LAMBDA p : ~p.cached)

\* The identities of category type `group` probed and not found, in probe order.
MissIdentities(group) ==
    LET ps == SelectSeq(MissProbes, LAMBDA p : p.group = group)
    IN  [n \in 1..Len(ps) |-> ps[n].identity]

\* The caller supplied a range: a start, an end, or both.
RangeSupplied == ge.start_date # None \/ ge.end_date # None

\* The range a call's start_date and end_date stand for.
CallRange == calc_start_end_range(ge.start_date, ge.end_date)

\* `events` are exactly the events of `full` that start in [start, end], each
\* once and in the order of `full` (n is an event's place in upstream's list).
ExactlyTheEventsIn(events, full, start, end) ==
    /\ \A j \in 1..Len(events) :
           /\ events[j] \in Range(full)
           /\ start <= events[j].start
           /\ events[j].start <= end
    /\ \A x \in Range(full) :
           (start <= x.start /\ x.start <= end) => x \in Range(events)
    /\ \A j, k \in 1..Len(events) : j < k => events[j].n < events[k].n

\* C1: an identity whose timetable is in the cache when gather_events probes it
\* is in no upstream request of that call: every occurrence of an identity in a
\* request stems from a probe that found the cache without it.
C1_CachedNeverRequested ==
    \A i \in Identities :
        Occurrences(i, requests)
            <= Len(SelectSeq(MissProbes, LAMBDA p : p.identity = i))

\* A call that probed a cached and an uncached identity and has sent its
\* request.
C1_Witness ==
    /\ ge.pc = "returned"
    /\ requests # <<>>
    /\ \E k \in 1..Len(ge.probes) : ge.probes[k].cached
    /\ \E k \in 1..Len(ge.probes) : ~ge.probes[k].cached

\* C2: gather_events issues at most one timetable request per category type,
\* for exactly the identities of that type it found uncached; a type with none
\* gets no request, and a call that returns has sent one for each type with a
\* miss.
C2_OneBatchPerType ==
    /\ \A r \in 1..Len(requests) :
           /\ requests[r].path = "Events"
           /\ requests[r].identities # <<>>
           /\ requests[r].identities = MissIdentities(requests[r].category_type)
    /\ \A r, q \in 1..Len(requests) :
           r # q => requests[r].category_type # requests[q].category_type
    /\ ge.pc = "returned" =>
           \A g \in GatherTypes :
               MissIdentities(g) # <<>> =>
                   \E r \in 1..Len(requests) : requests[r].category_type = g

\* A call that returned after one request carrying two identities.
C2_Witness ==
    /\ ge.pc = "returned"
    /\ Len(requests) = 1
    /\ Len(requests[1].identities) >= 2

\* C3: once fetch_category_items_timetables has succeeded (caching on), the
\* entry timetable:<id> of every timetable upstream returned holds all the
\* events upstream returned, whatever the range; only the returned value is
\* filtered.
C3_FullWindowCached ==
    ge.pc \in {"fetch", "returned"} =>
        \A k \in 1..Len(ge.contributions) :
            ~ge.contributions[k].hit =>
                LET i == ge.contributions[k].identity
                IN  /\ TimetableKey(i) \in DOMAIN cache
                    /\ cache[TimetableKey(i)].value.events = UpstreamEvents(i)
                    /\ cache[TimetableKey(i)].value.identity = i
                    /\ ge.contributions[k].events =
                           FilterEvents(UpstreamEvents(i),
                                        CallRange.start, CallRange.end)

\* A fetch whose range left out events: the caller got fewer than are cached.
C3_Witness ==
    /\ ge.pc = "returned"
    /\ \E k \in 1..Len(ge.contributions) :
           /\ ~ge.contributions[k].hit
           /\ Len(ge.contributions[k].events)
                  < Len(UpstreamEvents(ge.contributions[k].identity))
           /\ TimetableKey(ge.contributions[k].identity) \in DOMAIN cache

\* Every probe of the call found its identity in the cache.
AllCached ==
    /\ ge.probes # <<>>
    /\ \A k \in 1..Len(ge.probes) : ge.probes[k].cached

RECURSIVE ExpectedEvents(_, _, _)
ExpectedEvents(probes, start, end) ==
    IF probes = <<>> THEN <<>>
    ELSE FilterEvents(UpstreamEvents(Head(probes).identity), start, end)
             \o ExpectedEvents(Tail(probes), start, end)

C5_InclusiveStartFilter ==
    RangeSupplied =>
        \A k \in 1..Len(ge.contributions) :
            ExactlyTheEventsIn(ge.contributions[k].events,
                               UpstreamEvents(ge.contributions[k].identity),
                               CallRange.start, CallRange.end)

\* One call that returned events for a cached and for a fetched item, with an
\* event on each bound of the range kept and events outside it dropped.
C5_Witness ==
    /\ ge.pc = "returned"
    /\ RangeSupplied
    /\ \E k, m \in 1..Len(ge.contributions) :
           /\ ge.contributions[k].hit
           /\ ~ge.contributions[m].hit
           /\ \E j \in 1..Len(ge.contributions[k].events) :
                  ge.contributions[k].events[j].start = CallRange.start
           /\ \E j \in 1..Len(ge.contributions[m].events) :
                  ge.contributions[m].events[j].start = CallRange.end
           /\ Len(ge.contributions[k].events)
                  < Len(UpstreamEvents(ge.contributions[k].identity))


(***************************************************************************)
(* Claims about API.fetch_category.                                        *)
(***************************************************************************)
\* What category:<type> holds for the running fetch_category, if anything.
FcEntry ==
    IF CategoryKey(fc.category_type) \in DOMAIN cache
    THEN Some(cache[CategoryKey(fc.category_type)])
    ELSE None

\* A page of the running fetch_category failed after its retries.
FcPageFailed == \E n \in 1..Len(fc.data) : fc.data[n].state = "error"

\* fetch_category has ended, by returning or by raising.
FcEnded == fc.pc \in {"returned", "raised"}

\* C6: if any page of a multi-page fetch_category fails after its retries,
\* fetch_category raises, returns no Category, and category:<type> is as it
\* was before the call.
C6_AllOrNothingPages ==
    (fc.pc # "idle" /\ FcPageFailed) =>
        /\ FcEntry = fc.before
        /\ CategoryKey(fc.category_type) \notin Range(writes)
        /\ FcEnded => (fc.pc = "raised" /\ fc.result = None)

\* Page 2 of a 3-page fetch failed, page 3 did not, a listing was cached
\* before the call, and the call has raised.
C6_Witness ==
    /\ fc.pc = "raised"
    /\ Len(fc.data) = 2
    /\ fc.data[1].state = "error"
    /\ fc.data[2].state = "ok"
    /\ fc.before # None
    /\ FcEntry = fc.before

\* The query is a string of at least one character.
QueryNonEmpty(query) == query # None /\ query[1] # <<>>

\* The query is a string with a character that is not whitespace.
QueryNonBlank(query) ==
    query # None /\ \E n \in 1..Len(query[1]) : query[1][n] # " "

\* A cached listing is the one the last successful fetch of the whole
\* listing with caching on produced.
CachedIsCanonical ==
    \A t \in CategoryType :
        CategoryKey(t) \in DOMAIN cache =>
            Some(cache[CategoryKey(t)].value) = canonical[t]

EntryRequests(n) ==
    SubSeq(requests, rs.log[n].first_request + 1,
           IF n < Len(rs.log) THEN rs.log[n + 1].first_request
           ELSE Len(requests))

\* The cache keys written for the n-th code of the running call.
EntryWrites(n) ==
    SubSeq(writes, rs.log[n].first_write + 1,
           IF n < Len(rs.log) THEN rs.log[n + 1].first_write ELSE Len(writes))

\* The n-th code parsed as a canonical identifier.
IsIdentifier(n) == rs.log[n].item_id # None

\* C8: for a raw code that parses as a canonical identifier, the category
\* listing is never read for a fuzzy match and no category search is issued,
\* whatever the outcome of the identifier path.
C8_IdentifierNeverSearches ==
    \A n \in 1..Len(rs.log) :
        IsIdentifier(n) =>
            /\ ~rs.log[n].listing_read
            /\ \A m \in 1..Len(EntryRequests(n)) :
                   EntryRequests(n)[m].path # "Categories"

\* C9: a well-formed identifier that is not in the item cache and for which
\* upstream returns an empty result fails with InvalidCode, without a text
\* search and without a write to the cache.
C9_EmptyIsInvalidCode ==
    \A n \in 1..Len(rs.log) :
        (IsIdentifier(n) /\ ~rs.log[n].cached /\ rs.log[n].data = "empty") =>
            /\ rs.log[n].outcome = "InvalidCodeError"
            /\ rs.pc = "raised"
            /\ rs.error = "InvalidCodeError"
            /\ ~rs.log[n].listing_read
            /\ EntryWrites(n) = <<>>
            /\ ItemKey(rs.log[n].item_id[1]) \notin DOMAIN cache

\* The second code of a call is an identifier upstream has nothing for: the
\* call raised InvalidCode after one single-item request for it.
C9_Witness ==
    /\ rs.pc = "raised"
    /\ Len(rs.log) = 2
    /\ IsIdentifier(2)
    /\ rs.log[2].data = "empty"
    /\ rs.log[2].outcome = "InvalidCodeError"
    /\ Len(EntryRequests(2)) = 1
    /\ EntryWrites(2) = <<>>

\* The single-item fetches among the requests for the n-th code.
ItemFetches(n) == SelectSeq(EntryRequests(n), LAMBDA q : q.path = "Item")

\* C10: resolving an identifier issues no upstream request when item:<id> is
\* cached and exactly one single-item fetch when it is not; a fetched item
\* is stored under item:<id> for 24 hours.
C10_AtMostOneItemFetch ==
    \A n \in 1..Len(rs.log) :
        IsIdentifier(n) =>
            LET id == rs.log[n].item_id[1]
            IN  /\ rs.log[n].cached =>
                       (EntryRequests(n) = <<>> /\ rs.log[n].outcome = "item")
                /\ (~rs.log[n].cached /\ rs.log[n].outcome # "pending") =>
                       /\ Len(ItemFetches(n)) = 1
                       /\ ItemFetches(n)[1].identity = id
                /\ rs.log[n].data = "item" =>
                       /\ ItemKey(id) \in DOMAIN cache
                       /\ cache[ItemKey(id)].expires = DefaultExpiryHours
                       /\ cache[ItemKey(id)].value.identity = id

\* One call resolved the same identifier twice: the first time by the one
\* single-item fetch, the second time from item:<id>, without a request.
C10_Witness ==
    /\ rs.pc = "returned"
    /\ Len(rs.log) = 2
    /\ IsIdentifier(1)
    /\ rs.log[1].data = "item"
    /\ rs.log[2].item_id = rs.log[1].item_id
    /\ rs.log[2].cached
    /\ Len(requests) = 1
    /\ EntryRequests(2) = <<>>


\* get_category gave an item for the n-th code.
ListingYields(n) ==
    rs.log[n].listing # None /\ rs.log[n].listing[1].items # <<>>

\* The category searches made for the n-th code: the requests for page 1.
Searches(n) ==
    SelectSeq(EntryRequests(n), LAMBDA q : q.path = "Categories" /\ q.page = 1)

\* What a search of `group` for `code` can give first, at a revision upstream
\* has been at.
FirstResults(group, code) ==
    {BasicItem(ItemFromPayload(UpstreamSearch(group, Strip(code), r)[1])) :
        r \in {x \in 0..revision : UpstreamSearch(group, Strip(code), x) # <<>>}}

\* C11: for a free-text code the cached listing is queried first; an item it
\* yields is returned without an upstream request; only when the listing is
\* absent or yields nothing is exactly one category search issued, with the
\* same code as query, and its first result returned.
C11_ListingBeforeSearch ==
    \A n \in 1..Len(rs.log) :
        ~IsIdentifier(n) =>
            /\ ~rs.log[n].listing_read => EntryRequests(n) = <<>>
            /\ (rs.log[n].listing_read /\ ListingYields(n)) =>
                   /\ EntryRequests(n) = <<>>
                   /\ rs.log[n].search = None
                   /\ rs.log[n].outcome = "item"
                   /\ rs.codes[n].item = rs.log[n].listing[1].items[1]
            /\ (rs.log[n].listing_read /\ ~ListingYields(n)) =>
                   /\ rs.log[n].search = Some(rs.log[n].code)
                   /\ \A m \in 1..Len(EntryRequests(n)) :
                          /\ EntryRequests(n)[m].path = "Categories"
                          /\ EntryRequests(n)[m].category_type = rs.log[n].group
                          /\ EntryRequests(n)[m].query = Strip(rs.log[n].code)
                   /\ rs.log[n].outcome # "pending" => Len(Searches(n)) = 1
                   /\ rs.log[n].outcome = "item" =>
                          rs.codes[n].item
                              \in FirstResults(rs.log[n].group, rs.log[n].code)

\* The listing was absent for a code with a match upstream: one search was
\* issued and its first result returned.
C11_Witness ==
    /\ rs.pc = "returned"
    /\ Len(rs.log) = 1
    /\ rs.log[1].code = <<"MAT">>
    /\ rs.log[1].listing_read
    /\ rs.log[1].listing = None
    /\ Len(Searches(1)) = 1
    /\ rs.codes[1].item.identity = "u3"

\* The m-th and the n-th code are the same free-text code of the same group,
\* not blank; the listing was absent for the m-th, which a category search
\* answered.
SearchedEarlier(m, n) ==
    /\ m < n
    /\ ~IsIdentifier(m)
    /\ rs.log[m].code = rs.log[n].code
    /\ rs.log[m].group = rs.log[n].group
    /\ QueryNonBlank(Some(rs.log[m].code))
    /\ rs.log[m].listing_read
    /\ rs.log[m].listing = None
    /\ rs.log[m].outcome = "item"
    /\ rs.log[n].listing_read

\* C12 as stated: after a category search has answered a code, the next
\* resolution of that code is served from the category cache, without an
\* upstream request.
C12_SecondFromCache ==
    \A n \in 1..Len(rs.log) : \A m \in 1..(n - 1) :
        SearchedEarlier(m, n) => (ListingYields(n) /\ EntryRequests(n) = <<>>)

\* C12, amended: a category search does not populate the category cache;
\* unless something else wrote the listing in between, the next resolution
\* of the code finds the listing absent again and issues one more search.
C12_SecondSearchesAgain ==
    \A n \in 1..Len(rs.log) : \A m \in 1..(n - 1) :
        (/\ SearchedEarlier(m, n)
         /\ \A k \in (rs.log[m + 1].first_write + 1)..rs.log[n].first_write :
                writes[k] # CategoryKey(rs.log[n].group)) =>
            /\ rs.log[n].listing = None
            /\ rs.log[n].outcome # "pending" => Len(Searches(n)) = 1

\* The same code was resolved twice in a row, each time by a category search.
C12_Witness ==
    /\ rs.pc = "returned"
    /\ Len(rs.log) = 2
    /\ SearchedEarlier(1, 2)
    /\ Len(Searches(1)) = 1
    /\ Len(Searches(2)) = 1
    /\ rs.codes[2].item = rs.codes[1].item

\* C13: when no path yields an item for a raw code the call fails with
\* InvalidCode carrying exactly that raw code, on either path, and a returned
\* result has an item for every code.
C13_InvalidCodeCarriesRawCode ==
    /\ (rs.pc = "raised" /\ rs.error = "InvalidCodeError") =>
           rs.error_code = Some(rs.log[Len(rs.log)].code)
    /\ rs.pc = "returned" =>
           /\ Len(rs.result[1]) = Len(rs.original)
           /\ \A n \in 1..Len(rs.log) : rs.log[n].outcome = "item"

\* The item is a resolution of the code in the group.
Resolves(group, code, item) ==
    /\ \E r \in 0..MaxRevision : \E k \in 1..Len(UpstreamItems(group, r)) :
           UpstreamItems(group, r)[k].Identity = item.identity
    /\ IF UUIDParse(code) # None THEN item.identity = UUIDParse(code)[1]
       ELSE Contains(item.name, Strip(code))

\* C14: the result holds one item per supplied code, the i-th item of a type
\* being the resolution of its i-th code, and the codes are resolved one
\* after another in the supplied order.
C14_OrderPreserved ==
    /\ Len(rs.log) + Len(rs.todo) = Len(rs.original)
    /\ \A n \in 1..Len(rs.log) :
           /\ rs.log[n].group = rs.original[n][1]
           /\ rs.log[n].code = rs.original[n][2]
           /\ n < Len(rs.log) =>
                  /\ rs.log[n].outcome = "item"
                  /\ rs.log[n].first_request <= rs.log[n + 1].first_request
    /\ rs.pc = "returned" =>
           /\ rs.result # None
           /\ Len(rs.result[1]) = Len(rs.original)
           /\ \A n \in 1..Len(rs.original) :
                  /\ rs.result[1][n].group = rs.original[n][1]
                  /\ Resolves(rs.original[n][1], rs.original[n][2],
                              rs.result[1][n].item)

\* Two codes of one type that resolve to different items have been resolved.
C14_Witness ==
    /\ rs.pc = "returned"
    /\ Len(rs.original) = 2
    /\ rs.original[1][1] = rs.original[2][1]
    /\ rs.result[1][1].item.identity = "u3"
    /\ rs.result[1][2].item.identity = "u1"

\* C15: when the resolution of a code fails the call raises at once: nothing
\* is done for a later code and nothing is returned.
C15_FailureAborts ==
    \A n \in 1..Len(rs.log) :
        rs.log[n].outcome \notin {"pending", "item"} =>
            /\ n = Len(rs.log)
            /\ rs.pc = "raised"
            /\ rs.error = rs.log[n].outcome
            /\ rs.result = None
            /\ Len(rs.todo) = Len(rs.original) - n

\* The first of two codes failed after a request: the call has raised with
\* the second code untouched.
C15_Witness ==
    /\ rs.pc = "raised"
    /\ Len(rs.original) = 2
    /\ Len(rs.log) = 1
    /\ rs.todo # <<>>
    /\ requests # <<>>
    /\ rs.result = None


(***************************************************************************)
(* Claims about API._fetch_data.                                           *)
(***************************************************************************)
\* The responses the running _fetch_data has received.
Received == SubSeq(fd.responses, 1, Len(Sent(fd.trace)))

\* C16: _fetch_data sends one request at most 4 times: it returns the body
\* at the first success response, waits 5 seconds after each of the first
\* three non-success responses before sending again, and raises on the 4th
\* consecutive non-success response without a further wait or request.
C16_FourAttempts ==
    fd.pc # "idle" =>
        /\ Len(Sent(fd.trace)) <= 4
        /\ \A i \in 1..Len(fd.trace) :
               IF i % 2 = 1
               THEN fd.trace[i].kind = "request" /\ fd.trace[i].path = fd.path
               ELSE fd.trace[i].kind = "sleep" /\ fd.trace[i].seconds = 5
        /\ \A k \in 1..(Len(Received) - 1) : ~Received[k]
        /\ fd.pc = "returned" <=>
               (Received # <<>> /\ Received[Len(Received)])
        /\ fd.pc = "raised" <=>
               (Len(Received) = 4 /\ ~Received[4])
        /\ fd.pc = "raised" => Len(fd.trace) = 7
        /\ fd.pc = "sleep" =>
               (fd.trace[Len(fd.trace)].kind = "request" /\ Len(Received) <= 3)
        /\ fd.pc = "request" =>
               (fd.trace = <<>> \/ fd.trace[Len(fd.trace)].kind = "sleep")
        /\ fd.pc \in {"returned", "raised"} =>
               fetch_data(fd.responses) =
                   [ok |-> fd.pc = "returned",
                    sent |-> Len(Received),
                    sleeps |-> Len(fd.trace) - Len(Received)]

\* Four non-success responses in a row: four requests, three waits between
\* them, and the error.
C16_Witness ==
    /\ fd.pc = "raised"
    /\ Len(Sent(fd.trace)) = 4
    /\ Len(fd.trace) = 7
    /\ fd.trace[7].kind = "request"
    /\ fd.result = "ClientResponseError"


(***************************************************************************)
(* Claims about the propagation of upstream failures.                      *)
(***************************************************************************)
\* C17: if an upstream request made for fetch_category,
\* resolve_to_category_items or gather_events exhausts its retries, the
\* operation ends in an error: it returns neither what was gathered so far
\* nor an empty or default result.
C17_ExhaustedRetriesRaise ==
    exhausted =>
        /\ ge.pc # "returned"
        /\ rs.pc # "returned"
        /\ fc.pc # "returned"
        /\ ge.pc = "raised" =>
               (ge.error = "ClientResponseError" /\ ge.events = <<>>)
        /\ rs.pc = "raised" =>
               (rs.error = "ClientResponseError" /\ rs.result = None)
        /\ fc.pc = "raised" =>
               (fc.error = "ClientResponseError" /\ fc.result = None)
        /\ Finished => (ge.pc = "raised" \/ rs.pc = "raised" \/ fc.pc = "raised")

\* gather_events had the events of a cache hit in hand when the fetch for a
\* miss exhausted its retries: it raised.
C17_Witness ==
    /\ exhausted
    /\ ge.pc = "raised"
    /\ ge.error = "ClientResponseError"
    /\ \E n \in 1..Len(ge.contributions) :
           ge.contributions[n].hit /\ ge.contributions[n].events # <<>>


(***************************************************************************)
(* Claims about the date range of gather_events.                           *)
(***************************************************************************)
\* The running gather_events was given a start later than the end it was
\* given.
SuppliedStartAfterEnd ==
    /\ ge.pc # "idle"
    /\ ge.start_date # None
    /\ ge.end_date # None
    /\ ge.start_date[1] > ge.end_date[1]

\* The identities the running gather_events has still to probe.
ToProbe == CountIdentities(ge.todo)

\* C18: a gather_events call with start later than end, for a non-empty
\* identity set, issues no upstream request, whether the identities are
\* cached, uncached or mixed.
C18_NoRequestForBadRange ==
    SuppliedStartAfterEnd =>
        /\ requests = <<>>
        /\ ~exhausted
        /\ (Len(ge.probes) + ToProbe > 0) => ge.pc # "returned"

\* An uncached identity was probed, then a cached one: the call raised the
\* range error without a request.
C18_Witness ==
    /\ SuppliedStartAfterEnd
    /\ ge.pc = "raised"
    /\ ge.error = "ValueError"
    /\ Len(ge.probes) = 1
    /\ ~ge.probes[1].cached
    /\ ge.todo # <<>>
    /\ TimetableKey(Head(Head(ge.todo).identities)) \in DOMAIN cache
    /\ requests = <<>>

\* C19: a request with start after end is rejected before any I/O:
\* gather_events stores nothing in the cache and issues no upstream request
\* before it raises the range error.
C19_RejectedBeforeIO ==
    SuppliedStartAfterEnd =>
        /\ requests = <<>>
        /\ writes = <<>>
        /\ ge.pc \in {"returned", "raised"} =>
               (ge.pc = "raised" /\ ge.error = "ValueError")

\* C20: a range outside the academic-year window is accepted: a call in
\* which no supplied start is later than a supplied end, a call supplying
\* only a start or only an end outside the window included, ends without a
\* range error.
C20_OutsideWindowAccepted ==
    (ge.pc # "idle" /\ ~SuppliedStartAfterEnd) => ge.error # "ValueError"

(***************************************************************************)
(* C21.  On every current date, default_year_start_end_dates returns        *)
(* August 1 of the year Y and May 1 of the year Y + 1, where Y is the        *)
(* current year from August on and the year before until July; the start    *)
(* is before the end.                                                      *)
(***************************************************************************)
AcademicYear(now) == IF now.month \in 8..12 THEN now.year ELSE now.year - 1

C21_DefaultWindow ==
    clock.pc = "done" =>
        /\ clock.result[1][1] = DateTime(AcademicYear(clock.now), 8)
        /\ clock.result[1][2] = DateTime(AcademicYear(clock.now) + 1, 5)
        /\ clock.result[1][1] < clock.result[1][2]

\* The defaults of a date before August, which lie around it.
C21_Witness ==
    /\ clock.pc = "done"
    /\ clock.now.month < 8
    /\ clock.result[1][1] < DateTime(clock.now.year, clock.now.month)
    /\ DateTime(clock.now.year, clock.now.month) < clock.result[1][2]

(***************************************************************************)
(* C22.  get_category issues no upstream request and writes nothing to the  *)
(* cache; when category:<type> is absent it returns absent, with a query    *)
(* and without one.                                                        *)
(***************************************************************************)
GcReturned == gc.pc = "returned"

C22_ReaderOnlyReads ==
    GcReturned =>
        /\ requests = <<>>
        /\ writes = <<>>
        /\ cache = gc.before
        /\ (CategoryKey(gc.category_type) \notin DOMAIN gc.before
               => gc.result = None)

\* A read with a query of a listing that is not cached, next to one that is.
C22_Witness ==
    /\ GcReturned
    /\ gc.query # None /\ Strip(gc.query[1]) # <<>>
    /\ CategoryKey(gc.category_type) \notin DOMAIN gc.before
    /\ gc.before # EmptyCache
    /\ gc.result = None

(***************************************************************************)
(* C23.  For a query that is not blank, get_category returns exactly the    *)
(* cached items whose name scores above 80 (an item that scores exactly 80  *)
(* is left out), the best match first, cut to `limit` when a limit is       *)
(* given, and its count is the number of items returned.                    *)
(***************************************************************************)
GcFiltered ==
    /\ GcReturned
    /\ gc.result # None
    /\ gc.query # None /\ Strip(gc.query[1]) # <<>>

GcListing == gc.before[CategoryKey(gc.category_type)].value.items

GcScore(n) == Score(GcListing[n].name, gc.query[1])

\* The positions in the listing of the returned items.
GcPositions ==
    [r \in 1..Len(gc.result[1].items) |->
        CHOOSE n \in 1..Len(GcListing) :
            BasicItem(GcListing[n]) = gc.result[1].items[r]]

C23_AboveThresholdOnly ==
    GcFiltered =>
        LET above == {n \in 1..Len(GcListing) : GcScore(n) > 80}
            items == gc.result[1].items
        IN  /\ \A r \in 1..Len(items) :
                   \E n \in above : BasicItem(GcListing[n]) = items[r]
            /\ Len(items) = IF gc.limit # None /\ gc.limit[1] < Cardinality(above)
                             THEN gc.limit[1] ELSE Cardinality(above)
            /\ \A r \in 1..(Len(items) - 1) :
                   GcScore(GcPositions[r]) >= GcScore(GcPositions[r + 1])
            /\ \A n \in above : \A r \in 1..Len(items) :
                   GcScore(n) > GcScore(GcPositions[r])
                       => \E q \in 1..Len(items) : GcPositions[q] = n
            /\ gc.result[1].count = Len(items)

\* The same with the threshold as process.extract applies it: a score of
\* exactly 80 is kept.
C23_AtLeastThreshold ==
    GcFiltered =>
        LET kept == {n \in 1..Len(GcListing) : GcScore(n) >= 80}
            items == gc.result[1].items
        IN  /\ \A r \in 1..Len(items) :
                   \E n \in kept : BasicItem(GcListing[n]) = items[r]
            /\ Len(items) = IF gc.limit # None /\ gc.limit[1] < Cardinality(kept)
                             THEN gc.limit[1] ELSE Cardinality(kept)
            /\ \A r \in 1..(Len(items) - 1) :
                   GcScore(GcPositions[r]) >= GcScore(GcPositions[r + 1])
            /\ \A n \in kept : \A r \in 1..Len(items) :
                   GcScore(n) > GcScore(GcPositions[r])
                       => \E q \in 1..Len(items) : GcPositions[q] = n
            /\ gc.result[1].count = Len(items)

\* An unlimited search that returns an item scoring exactly 80 after two
\* that score 100, out of a listing that has it first.
C23_Witness ==
    /\ GcFiltered
    /\ gc.limit = None
    /\ Len(gc.result[1].items) = 3
    /\ GcScore(GcPositions[3]) = 80
    /\ GcPositions[3] = 1

(***************************************************************************)
(* C24.  Whatever the interleaving of concurrent operations that write one  *)
(* cache key, each operation that returns has sent its request and written  *)
(* its keys, and the value under a key is at every moment the whole value   *)
(* built by the operation that wrote the key last: never a mixture.         *)
(***************************************************************************)
\* The key an operation stores one of its values under.
CoKeyOf(call, value) ==
    IF call.op = "fetch_category" THEN CategoryKey(call.category_type)
    ELSE IF call.op = "fetch_category_item" THEN ItemKey(value.identity)
    ELSE TimetableKey(value.identity)

\* The writes of a key so far, oldest first.
WritesOf(key) == SelectSeq(writes, LAMBDA w : w.key = key)

LastWriter(key) == WritesOf(key)[Len(WritesOf(key))].task

\* The values a task has built for a key.
CoBuilt(t, key) ==
    {co[t].value[n] : n \in {m \in 1..Len(co[t].value) :
                                CoKeyOf(co[t].call, co[t].value[m]) = key}}

C24_LastWriteWins ==
    /\ \A key \in DOMAIN cache :
           /\ WritesOf(key) # <<>>
           /\ CoBuilt(LastWriter(key), key) = {cache[key].value}
    /\ \A t \in Tasks :
           co[t].pc = "returned" =>
               /\ co[t].calls[1].sent >= 1
               /\ \A key \in CoKeys(co[t].call) :
                      \E n \in 1..Len(writes) :
                          writes[n] = [task |-> t, key |-> key]

\* Two fetches of the listing that both found the key missing and built
\* different listings: both have written, and the listing of the second
\* writer is the one cached.
C24_Witness ==
    /\ \A t \in Tasks :
           /\ co[t].pc = "returned"
           /\ co[t].call.op = "fetch_category"
           /\ CategoryKey("MODULES") \in co[t].missing
    /\ co["a"].value # co["b"].value
    /\ Len(WritesOf(CategoryKey("MODULES"))) = 2
    /\ WritesOf(CategoryKey("MODULES"))[1].task = "b"
    /\ cache[CategoryKey("MODULES")].value = co["a"].value[1]

(***************************************************************************)
(* C25.  Every write of a listing or of an item sets an expiry of 24 hours  *)
(* and every write of a timetable one of 12 hours, counted from the write;  *)
(* nothing but a write brings an entry in or renews it, an entry whose      *)
(* expiry has elapsed is absent, and an operation whose upstream request    *)
(* fails leaves the cache as it is and ends with an error and no value.     *)
(***************************************************************************)
\* The keys the step has written.
Written ==
    IF Len(writes') > Len(writes)
    THEN {writes'[n] : n \in (Len(writes) + 1)..Len(writes')}
    ELSE {}

ExpiryOf(key) == IF key[1] = "timetable" THEN 12 ELSE 24

C25_Step ==
    /\ \A key \in Written :
           key \in DOMAIN cache' /\ cache'[key].expires = ExpiryOf(key)
    /\ \A key \in DOMAIN cache' \ Written :
           /\ key \in DOMAIN cache
           /\ cache'[key].value = cache[key].value
           /\ cache'[key].expires <= cache[key].expires
    /\ \A key \in DOMAIN cache' : cache'[key].expires > 0
    /\ \A key \in DOMAIN cache \ Written :
           \/ key \in DOMAIN cache'
           \/ \E hours \in 1..24 :
                  /\ cache[key].expires <= hours
                  /\ \A k \in DOMAIN cache' :
                         cache'[k].expires = cache[k].expires - hours
    /\ (exhausted' /\ ~exhausted) => cache' = cache
    /\ (exhausted' /\ Finished') =>
           /\ ge'.pc \in {"idle", "raised"} /\ ge'.events = <<>>
           /\ rs'.pc \in {"idle", "raised"} /\ rs'.result = None
           /\ fc'.pc \in {"idle", "raised"} /\ fc'.result = None

C25_ExpiryFromWrite == [][C25_Step]_vars

\* gather_events found the timetable of an identity cached, found it gone
\* at the next probe of the same identity, and the fetch for it failed: the
\* call raised and the entry is still absent.
C25_Witness ==
    /\ ge.pc = "raised"
    /\ exhausted
    /\ Len(ge.probes) = 2
    /\ ge.probes[1].identity = "u1" /\ ge.probes[1].cached
    /\ ge.probes[2].identity = "u1" /\ ~ge.probes[2].cached
    /\ ge.events = <<>>
    /\ TimetableKey("u1") \notin DOMAIN cache
    /\ \E key \in DOMAIN cache : key[1] # "timetable"

(***************************************************************************)
(* C26.  A listing is kept under category:<value of the category type>, an  *)
(* item under item:<its identity> and a timetable under                     *)
(* timetable:<its identity>, and under no other key; a read by identity     *)
(* returns the entity of that identity, and entities that differ in kind    *)
(* or in identity have different keys.                                      *)
(***************************************************************************)
\* The key of the spec's scheme for an entity of a kind.
SchemeKey(kind, identity) == <<kind, ":", identity>>

TypeValues ==
    [MODULES |-> "525fe79b-73c3-4b5c-8186-83c652b3adcc",
     LOCATIONS |-> "1e042cb1-547d-41d4-ae93-a1f2c3d34538",
     PROGRAMMES_OF_STUDY |-> "241e4d36-60e0-49f8-b27e-99416745d98d"]

\* The entry under `key` holds an entity the scheme gives that key to.
KeyOfItsValue(key) ==
    LET value == cache[key].value
    IN  \/ /\ key[1] = "category"
           /\ \E t \in CategoryType :
                  /\ key = SchemeKey("category", TypeValues[t])
                  /\ \A n \in 1..Len(value.items) :
                         value.items[n].category_type = t
        \/ /\ key[1] = "item"
           /\ key = SchemeKey("item", value.identity)
           /\ "code" \in DOMAIN value
        \/ /\ key[1] = "timetable"
           /\ key = SchemeKey("timetable", value.identity)
           /\ "events" \in DOMAIN value

C26_KeyScheme ==
    /\ \A key \in DOMAIN cache : KeyOfItsValue(key)
    /\ \A n \in 1..Len(writes) :
           writes[n][1] \in {"category", "item", "timetable"}
               /\ writes[n][2] = ":" /\ Len(writes[n]) = 3
    /\ \A n \in 1..Len(ge.contributions) :
           ge.contributions[n].hit =>
               \A m \in 1..Len(ge.contributions[n].events) :
                   ge.contributions[n].events[m].identity
                       = ge.contributions[n].identity
    /\ \A n \in 1..Len(ge.probes) :
           ge.probes[n].cached =>
               \E m \in 1..Len(ge.contributions) :
                   ge.contributions[m].hit
                       /\ ge.contributions[m].identity = ge.probes[n].identity
    /\ \A n \in 1..Len(rs.codes) :
           \A m \in 1..Len(rs.log) :
               (rs.log[m].cached /\ rs.log[m].outcome = "item"
                    /\ rs.log[m].item_id # None /\ m = n)
                   => rs.codes[n].item.identity = rs.log[m].item_id[1]
    /\ \A k1, k2 \in {"category", "item", "timetable"} :
           \A i1, i2 \in ItemIdentities \cup {TypeValues[t] : t \in CategoryType} :
               SchemeKey(k1, i1) = SchemeKey(k2, i2) => (k1 = k2 /\ i1 = i2)

\* Timetables of two identities and an item are cached, each under its own
\* key, and a probe for one of the identities has been answered from it.
C26_Witness ==
    /\ TimetableKey("u1") \in DOMAIN cache
    /\ TimetableKey("u2") \in DOMAIN cache
    /\ \E key \in DOMAIN cache : key[1] = "item"
    /\ \E key \in DOMAIN cache : key[1] = "category"
    /\ \E n \in 1..Len(ge.contributions) : ge.contributions[n].hit

(***************************************************************************)
(* C27.  The range filter is idempotent: an event list that was filtered    *)
(* to a range comes back unchanged from the same filter, so a read with     *)
(* the range R of a cached value already filtered to R loses no event.      *)
(***************************************************************************)
\* The ranges a filter is applied with: the bounds a caller may supply and
\* the defaults.
FilterRanges ==
    {r \in (Instants \cup {StartDefault, EndDefault})
              \X (Instants \cup {StartDefault, EndDefault}) : r[1] <= r[2]}

\* The event lists at hand: those of the cached timetables and those the
\* running gather_events got from a hit or from a fetch.
EventLists ==
    {cache[key].value.events : key \in {k \in DOMAIN cache : k[1] = "timetable"}}
        \cup {ge.contributions[n].events : n \in 1..Len(ge.contributions)}

\* A read with the range (start, end) of a store that holds `events` for an
\* identity.
ReadBack(identity, events, start, end) ==
    get_category_item_timetable(
        set_category_item_timetable(
            EmptyCache,
            [category_type |-> "MODULES", identity |-> identity, events |-> events]),
        identity, Some(start), Some(end)).timetable[1].events

C27_FilterIdempotent ==
    \A events \in EventLists : \A r \in FilterRanges :
        LET once == FilterEvents(events, r[1], r[2])
        IN  /\ FilterEvents(once, r[1], r[2]) = once
            /\ \A identity \in Identities :
                   ReadBack(identity, once, r[1], r[2]) = once

\* A fetched timetable whose events were cut to the default range: filtered
\* again to that range, and read back with it, what the call got stays as
\* it is.
C27_Witness ==
    /\ ge.pc = "returned"
    /\ \E n \in 1..Len(ge.contributions) :
           LET got == ge.contributions[n]
           IN  /\ ~got.hit
               /\ got.events # <<>>
               /\ got.events # cache[TimetableKey(got.identity)].value.events
               /\ got.events = FilterEvents(
                                   cache[TimetableKey(got.identity)].value.events,
                                   StartDefault, EndDefault)
               /\ FilterEvents(got.events, StartDefault, EndDefault) = got.events
               /\ ReadBack(got.identity, got.events, StartDefault, EndDefault)
                      = got.events

(***************************************************************************)
(* C28.  fetch_category asks for page 1 before any other page: a request    *)
(* for one of the pages 2..N exists only once page 1 has been answered      *)
(* well and has reported N > 1 pages; when page 1 fails after its retries   *)
(* or reports at most one page, no other page is asked for.                 *)
(***************************************************************************)
\* The tasks that run fetch_category.
CategoryTasks == {t \in Tasks : co[t].call.op = "fetch_category"}

\* TotalPages as page 1 reported it to the task.
ReportedPages(t) ==
    UpstreamPage(co[t].call.category_type, QueryParam(None),
                 co[t].calls[1].rev, 1).TotalPages

C28_FirstPageFirst ==
    \A t \in CategoryTasks :
        /\ \A k \in 2..Len(co[t].calls) :
               /\ co[t].calls[1].state = "ok"
               /\ co[t].calls[1].sent >= 1
               /\ ReportedPages(t) > 1
               /\ k <= ReportedPages(t)
        /\ co[t].calls[1].state \in {"pending", "sleeping", "error"}
               => Len(co[t].calls) = 1
        /\ (co[t].calls[1].state = "ok" /\ ReportedPages(t) <= 1)
               => Len(co[t].calls) = 1

\* One fetch whose page 1 failed after its retries and that raised with no
\* other page asked for, next to one of a single page that has returned.
C28_Witness ==
    /\ co["a"].call.op = "fetch_category"
    /\ co["a"].pc = "raised"
    /\ co["a"].calls[1].state = "error"
    /\ co["a"].calls[1].sent = 4
    /\ Len(co["a"].calls) = 1
    /\ co["b"].call.op = "fetch_category"
    /\ co["b"].pc = "returned"
    /\ ReportedPages("b") = 1
    /\ Len(co["b"].calls) = 1

(***************************************************************************)
(* C29.  When upstream's listing does not change during the fetch, a        *)
(* fetch_category that returns after page 1 reported N pages has asked for  *)
(* each of the pages 1..N and for no other, and returns the items of the    *)
(* pages 1..N, each page's once, with the Count page 1 reported.            *)
(***************************************************************************)
\* Every page of the task's fetch was answered at the same revision.
ListingUnchanged(t) ==
    \A k \in 1..Len(co[t].calls) : co[t].calls[k].rev = co[t].calls[1].rev

\* The Results of the pages first..last at a revision, one after the other.
RECURSIVE PagesResults(_, _, _, _)
PagesResults(category_type, rev, first, last) ==
    IF first > last THEN <<>>
    ELSE UpstreamPage(category_type, QueryParam(None), rev, first).Results
             \o PagesResults(category_type, rev, first + 1, last)

C29_EveryPageOnce ==
    \A t \in CategoryTasks :
        (co[t].pc = "returned" /\ ListingUnchanged(t)) =>
            LET rev == co[t].calls[1].rev
                results == PagesResults(co[t].call.category_type, rev, 1,
                                        ReportedPages(t))
                category == co[t].value[1]
            IN  /\ Len(co[t].calls) = IF ReportedPages(t) > 1
                                      THEN ReportedPages(t) ELSE 1
                /\ \A k \in 1..Len(co[t].calls) :
                       /\ co[t].calls[k].state = "ok"
                       /\ co[t].calls[k].sent = co[t].calls[k].retries + 1
                /\ Len(category.items) = Len(results)
                /\ \A n \in 1..Len(results) :
                       category.items[n].identity = results[n].Identity
                /\ results = UpstreamItems(co[t].call.category_type, rev)
                /\ category.count
                       = UpstreamPage(co[t].call.category_type, QueryParam(None),
                                      rev, 1).Count

\* A fetch of three pages, all answered at one revision, the third before
\* the second and the second after a retry, has returned the three items.
C29_Witness ==
    /\ co["a"].call.op = "fetch_category"
    /\ co["a"].pc = "returned"
    /\ ListingUnchanged("a")
    /\ Len(co["a"].calls) = 3
    /\ co["a"].calls[2].retries = 1
    /\ Len(co["a"].value[1].items) = 3
    /\ co["a"].value[1].count = 3

(***************************************************************************)
(* C30.  While a page request of a fetch_category waits in its retry delay, *)
(* the requests of the other pages and of the other task can go on and      *)
(* complete: a request that has not ended and is not itself in its delay    *)
(* can always be sent and answered, whatever state the others are in.       *)
(***************************************************************************)
C30_NoWaitForOthers ==
    \A t \in Tasks : \A k \in 1..Len(co[t].calls) :
        (co[t].pc = "fetching" /\ co[t].calls[k].state = "pending") =>
            ENABLED (CoFetchDataOf(t, k, TRUE) /\ co'[t].calls[k].state = "ok")

\* Page 2 of a fetch is in its retry delay; page 3, asked for meanwhile, has
\* been answered, and the other task's request is still to be sent.
C30_Witness ==
    /\ co["a"].call.op = "fetch_category"
    /\ Len(co["a"].calls) = 3
    /\ co["a"].calls[2].state = "sleeping"
    /\ co["a"].calls[3].state = "ok"
    /\ co["b"].pc = "fetching"
    /\ co["b"].calls[1].state = "pending"
    /\ co["b"].calls[1].sent = 0

(***************************************************************************)
(* C31.  When gather_events fails after timetables were written, a request  *)
(* of a later category type or a later cache write having failed, what was  *)
(* written stays in the cache; the following call with the same arguments   *)
(* requests from upstream only identities that were not cached, none of     *)
(* those the failed call wrote, and returns the events of all identities.   *)
(***************************************************************************)
\* The identities of the requests sent so far.
Requested == UNION {Range(requests[r].identities) : r \in 1..Len(requests)}

\* The identities the running call was given.
Probing == {ge.probes[n].identity : n \in 1..Len(ge.probes)}

\* Upstream answered for every identity it was asked for.
AllAnswered ==
    \A i \in Requested :
        \E k \in 1..Len(ge.contributions) :
            ge.contributions[k].identity = i /\ ~ge.contributions[k].hit

C31_PartialWritesKept ==
    /\ ge.pc = "raised" =>
           \A n \in 1..Len(writes) :
               /\ writes[n] \in DOMAIN cache
               /\ \E i \in Identities :
                      /\ writes[n] = TimetableKey(i)
                      /\ cache[writes[n]].value.events = UpstreamEvents(i)
    /\ (ge.after # None /\ ge.after[1].failed) =>
           /\ \A i \in Requested :
                  /\ TimetableKey(i) \notin ge.after[1].written
                  /\ \E n \in 1..Len(ge.probes) :
                         ge.probes[n].identity = i /\ ~ge.probes[n].cached
           /\ (ge.pc = "returned" /\ AllAnswered) =>
                  \A i \in Probing :
                      \A n \in 1..Len(UpstreamEvents(i)) :
                          InRange(UpstreamEvents(i)[n], CallRange.start,
                                  CallRange.end)
                              => UpstreamEvents(i)[n] \in Range(ge.events)

\* The second call returned: it found in the cache what the failed call had
\* written for one identity and fetched the other one alone.
C31_Witness ==
    /\ ge.after # None
    /\ ge.after[1].failed
    /\ ge.pc = "returned"
    /\ ge.after[1].written = {TimetableKey("u1")}
    /\ Len(requests) = 1
    /\ requests[1].identities = <<"u2">>
    /\ \E k \in 1..Len(ge.contributions) :
           ge.contributions[k].identity = "u1" /\ ge.contributions[k].hit
    /\ \E k \in 1..Len(ge.contributions) :
           ge.contributions[k].identity = "u2" /\ ~ge.contributions[k].hit

(***************************************************************************)
(* C32.  A failure of the request of _fetch_data reaches the caller only    *)
(* after the retries are used up, also when it is a failure of the          *)
(* transport that yields no response: whenever _fetch_data has raised, it   *)
(* has sent its four requests with the three waits between them.            *)
(***************************************************************************)
C32_FailureAfterRetriesOnly ==
    fd.pc = "raised" =>
        /\ Len(Sent(fd.trace)) = MaxRetries + 1
        /\ Len(fd.trace) = 2 * MaxRetries + 1

\* Where only bad responses make _fetch_data raise, the retries come first.
C32_BadResponsesRetried ==
    (fd.pc = "raised" /\ fd.result = "ClientResponseError") =>
        /\ Len(Sent(fd.trace)) = MaxRetries + 1
        /\ Len(fd.trace) = 2 * MaxRetries + 1

\* The first request got no response and the exception has left _fetch_data.
C32_Witness ==
    /\ fd.pc = "raised"
    /\ fd.result = "ClientConnectionError"
    /\ Len(fd.trace) = 1

(***************************************************************************)
(* C33.  The read operations (get_category with and without a query,        *)
(* get_category_item, get_category_item_timetable with and without a range) *)
(* leave the cache as it was: no entry is set, no expiry is renewed, and    *)
(* what the filter left of the value read is not written back.              *)
(***************************************************************************)
GcEnded == gc.pc \in {"returned", "raised"}

C33_ReadsLeaveCache ==
    GcEnded =>
        /\ cache = gc.before
        /\ writes = <<>>
        /\ requests = <<>>

\* A timetable was read with a range that left out some of its events, an
\* item and a listing were cached 12 hours before it: the entry still holds
\* every event, and the expiry of the older entries was not renewed.
C33_Witness ==
    /\ GcEnded
    /\ gc.op = "get_category_item_timetable"
    /\ gc.start # None
    /\ gc.result # None
    /\ TimetableKey(gc.item_identity) \in DOMAIN cache
    /\ Len(gc.result[1].events)
           < Len(cache[TimetableKey(gc.item_identity)].value.events)
    /\ \E k \in DOMAIN cache :
           k[1] \in {"item", "category"} /\ cache[k].expires < DefaultExpiryHours

\* An item that is cached was read.
C33_WitnessItem ==
    /\ GcEnded
    /\ gc.op = "get_category_item"
    /\ gc.result # None
    /\ cache[ItemKey(gc.item_identity)].expires < DefaultExpiryHours

(***************************************************************************)
(* C34.  For an identity and the same start and end, both absent included,  *)
(* get_category_item_timetable returns from the entry the event list that   *)
(* fetch_category_items_timetables returned for those arguments when it     *)
(* wrote the entry, also when upstream holds events that start outside the  *)
(* default window.                                                          *)
(***************************************************************************)
\* What a read of the entry of the k-th contribution returns, with the
\* arguments of the call that fetched it.
ReadOfFetched(k) ==
    get_category_item_timetable(cache, ge.contributions[k].identity,
                                ge.start_date, ge.end_date)

C34_ReadEqualsFetch ==
    ge.pc \in {"fetch", "returned"} =>
        \A k \in 1..Len(ge.contributions) :
            ~ge.contributions[k].hit =>
                /\ ReadOfFetched(k).timetable # None
                /\ ReadOfFetched(k).timetable[1].events
                       = ge.contributions[k].events

\* With a bound given the two agree.
C34_ReadEqualsFetchWithBound ==
    (ge.pc \in {"fetch", "returned"} /\ RangeSupplied) =>
        \A k \in 1..Len(ge.contributions) :
            ~ge.contributions[k].hit =>
                /\ ReadOfFetched(k).timetable # None
                /\ ReadOfFetched(k).timetable[1].events
                       = ge.contributions[k].events

\* Without a bound the fetch returned the events of the default window and
\* the read returns all that upstream sent.
C34_Witness ==
    /\ ge.pc = "returned"
    /\ ~RangeSupplied
    /\ \E k \in 1..Len(ge.contributions) :
           /\ ~ge.contributions[k].hit
           /\ ReadOfFetched(k).timetable[1].events
                  = UpstreamEvents(ge.contributions[k].identity)
           /\ Len(ge.contributions[k].events)
                  < Len(UpstreamEvents(ge.contributions[k].identity))

(***************************************************************************)
(* C35.  For a free-text code resolve_to_category_items returns only an     *)
(* item that matched the code as a query: an item of the cached listing     *)
(* whose score passes the cutoff, or the first result of an upstream search *)
(* for the code.  A code that is empty or all whitespace is resolved to no  *)
(* item: never to the first item of the whole listing.                      *)
(***************************************************************************)
\* The item the n-th code was resolved to matched the code as a query.
MatchedAsQuery(n) ==
    IF ListingYields(n)
    THEN ScoreKept(Score(rs.codes[n].item.name, rs.log[n].code))
    ELSE rs.codes[n].item \in FirstResults(rs.log[n].group, rs.log[n].code)

C35_OnlyMatchingItems ==
    \A n \in 1..Len(rs.log) :
        (~IsIdentifier(n) /\ rs.log[n].outcome = "item") =>
            /\ QueryNonBlank(Some(rs.log[n].code))
            /\ MatchedAsQuery(n)

\* For a code that is not blank the item matched.
C35_NonBlankCodeMatches ==
    \A n \in 1..Len(rs.log) :
        (/\ ~IsIdentifier(n)
         /\ rs.log[n].outcome = "item"
         /\ QueryNonBlank(Some(rs.log[n].code))) =>
            MatchedAsQuery(n)

\* A code of one space was resolved to the first item of the whole listing
\* of modules: once from the cached listing, once from upstream.
C35_Witness ==
    /\ rs.pc = "returned"
    /\ Len(rs.log) = 2
    /\ rs.log[1].code = <<" ">> /\ rs.log[2].code = <<" ">>
    /\ ~ListingYields(1) /\ ListingYields(2)
    /\ rs.codes[1].item.identity = "u1"
    /\ rs.codes[2].item.identity = "u1"

(***************************************************************************)
(* C36.  The item resolve_to_category_items returns under a category type   *)
(* for an identifier is of that category type, also when it comes from the  *)
(* item cache after the identifier was resolved under another type.         *)
(***************************************************************************)
C36_ItemOfItsType ==
    \A n \in 1..Len(rs.log) :
        (IsIdentifier(n) /\ rs.log[n].outcome = "item") =>
            rs.codes[n].item.category_type = rs.log[n].group

\* An item upstream sent for the request of this code is of the type asked
\* for.
C36_FetchedItemOfItsType ==
    \A n \in 1..Len(rs.log) :
        (IsIdentifier(n) /\ rs.log[n].outcome = "item" /\ ~rs.log[n].cached) =>
            rs.codes[n].item.category_type = rs.log[n].group

\* The identifier of a location was resolved under LOCATIONS and then under
\* MODULES: the second time the location came out of the item cache.
C36_Witness ==
    /\ rs.pc = "returned"
    /\ Len(rs.log) = 2
    /\ rs.log[1].group = "LOCATIONS" /\ rs.log[2].group = "MODULES"
    /\ rs.log[1].item_id = Some("u2") /\ rs.log[2].item_id = Some("u2")
    /\ rs.log[2].cached
    /\ rs.codes[2].item.category_type = "LOCATIONS"

(***************************************************************************)
(* C37.  When upstream's answer to the batched request holds no timetable   *)
(* for a requested identity, gather_events goes on without an error: the    *)
(* identity adds no events, no entry is written for it, and the next call   *)
(* of gather_events requests it from upstream again.                        *)
(***************************************************************************)
C37_UnansweredIdentity ==
    /\ \A i \in ge.unknown :
           /\ TimetableKey(i) \notin Range(writes)
           /\ TimetableKey(i) \notin DOMAIN cache
           /\ \A k \in 1..Len(ge.contributions) :
                  ge.contributions[k].identity # i
           /\ \A k \in 1..Len(ge.events) : ge.events[k].identity # i
    /\ (ge.unknown # {} /\ ge.pc = "raised") =>
           (exhausted \/ ge.error = "RequestError")
    /\ ge.after # None =>
           \A i \in ge.after[1].unknown :
               /\ \A n \in 1..Len(ge.probes) :
                      ge.probes[n].identity = i => ~ge.probes[n].cached
               /\ (ge.todo = <<>> /\ ge.pc # "raised") =>
                      \E k \in 1..Len(ge.timetables_to_fetch) :
                          i \in Range(ge.timetables_to_fetch[k].identities)
               /\ ge.pc = "returned" => i \in Requested

\* Upstream had no timetable for u2 of the two identities asked for; the
\* call returned the events of u1, and the next call found u1 cached and
\* requested u2 alone.
C37_Witness ==
    /\ ge.after # None
    /\ ~ge.after[1].failed
    /\ ge.after[1].unknown = {"u2"}
    /\ ge.after[1].written = {TimetableKey("u1")}
    /\ ge.pc = "returned"
    /\ Len(requests) = 1
    /\ requests[1].identities = <<"u2">>
    /\ \E k \in 1..Len(ge.contributions) :
           ge.contributions[k].identity = "u1" /\ ge.contributions[k].hit

(***************************************************************************)
(* C38.  gather_events returns first the events of the identities found in  *)
(* the cache, in the caller's order of category types and identities, and   *)
(* after them the events of the fetched timetables, category type by        *)
(* category type, in the order of upstream's answer: the events of a cached *)
(* identity come before those of an uncached one the caller listed first.   *)
(***************************************************************************)
\* The contributions to the result that came from the cache, and those that
\* came from upstream, each in their order.
HitContributions == SelectSeq(ge.contributions, LAMBDA x : x.hit)
FetchedContributions == SelectSeq(ge.contributions, LAMBDA x : ~x.hit)

\* The probes that found a timetable, in the order of the probes.
HitProbes == SelectSeq(ge.probes, LAMBDA x : x.cached)

\* The identities of the requests answered so far, in the order of the
\* requests, without those upstream sent no timetable for.
RECURSIVE AnsweredIdentities(_)
AnsweredIdentities(k) ==
    IF k = 0 THEN <<>>
    ELSE AnsweredIdentities(k - 1)
             \o SelectSeq(ge.timetables_to_fetch[k].identities,
                          LAMBDA i : i \notin ge.unknown)

\* The events of a sequence of contributions, one after the other.
RECURSIVE EventsInOrder(_)
EventsInOrder(contributions) ==
    IF contributions = <<>> THEN <<>>
    ELSE Head(contributions).events \o EventsInOrder(Tail(contributions))

C38_HitsBeforeFetched ==
    ge.pc \in {"probe", "fetch", "returned"} =>
        /\ ge.events = EventsInOrder(HitContributions)
                           \o EventsInOrder(FetchedContributions)
        /\ Len(HitContributions) = Len(HitProbes)
        /\ \A n \in 1..Len(HitContributions) :
               HitContributions[n].identity = HitProbes[n].identity
        /\ Len(FetchedContributions) = Len(AnsweredIdentities(ge.fetched))
        /\ \A n \in 1..Len(FetchedContributions) :
               FetchedContributions[n].identity
                   = AnsweredIdentities(ge.fetched)[n]

\* The caller listed u1, not cached, before u2, cached: the events of u2
\* stand first in the result and those of u1 after them.
C38_Witness ==
    /\ ge.pc = "returned"
    /\ Len(ge.probes) = 2
    /\ ge.probes[1].identity = "u1" /\ ~ge.probes[1].cached
    /\ ge.probes[2].identity = "u2" /\ ge.probes[2].cached
    /\ ge.events # <<>>
    /\ ge.events[1].identity = "u2"
    /\ ge.events[Len(ge.events)].identity = "u1"

\* Two timetables came in one answer: their events are in the order of the
\* answer.
C38_WitnessBatch ==
    /\ ge.pc = "returned"
    /\ Len(FetchedContributions) = 2
    /\ ge.events[1].identity = "u1"
    /\ ge.events[Len(ge.events)].identity = "u2"

(***************************************************************************)
(* C39.  When every request gets a response and every cache operation       *)
(* completes, a call of _fetch_data ends after at most 4 requests, a        *)
(* fetch_category over N pages sends at most 4 * N requests, and every call *)
(* of fetch_category, resolve_to_category_items and gather_events returns   *)
(* or raises in the end.                                                    *)
(***************************************************************************)
\* The requests the calls of _fetch_data of a task's operation have sent.
RECURSIVE SentBy(_)
SentBy(calls) ==
    IF calls = <<>> THEN 0 ELSE Head(calls).sent + SentBy(Tail(calls))

\* The pages of the listing a task's fetch_category goes through: what page
\* 1 reported, one before page 1 is answered.
PagesOf(frame) == IF Len(frame.calls) = 0 THEN 1 ELSE Len(frame.calls)

RequestsBounded ==
    /\ \A t \in Tasks :
           /\ \A k \in 1..Len(co[t].calls) : co[t].calls[k].sent <= MaxRetries + 1
           /\ SentBy(co[t].calls) <= (MaxRetries + 1) * PagesOf(co[t])

Ended(pc) == pc \in {"returned", "raised"}

\* The operations run one at a time here: the frames of the others are idle.
Running(frame) ==
    /\ ~Ended(frame.pc)
    /\ frame.pc # "idle"
    /\ Cardinality({f \in {"ge", "rs", "co"} :
                       (IF f = "ge" THEN ge.pc ELSE IF f = "rs" THEN rs.pc
                        ELSE co["a"].pc) # "idle"}) = 1

AnEnd == Ended(ge.pc) \/ Ended(rs.pc) \/ Ended(co["a"].pc)

C39_Terminates ==
    /\ []RequestsBounded
    /\ [](\A frame \in {ge, rs, co["a"]} :
             (frame.pc # "idle" /\ ~Ended(frame.pc)) => Running(frame))
    /\ (Running(ge) \/ Running(rs) \/ Running(co["a"])) ~> AnEnd

\* A fetch_category over two pages has returned after each of its pages was
\* answered at the fourth request: 8 requests.
C39_Witness ==
    /\ co["a"].pc = "returned"
    /\ co["a"].call.op = "fetch_category"
    /\ Len(co["a"].calls) = 2
    /\ SentBy(co["a"].calls) = 2 * (MaxRetries + 1)

====
